---------------------------- MODULE Spec2Model ----------------------------
(***************************************************************************)
(* Model of the snappy-web-agent device-communication pipeline:            *)
(*   src/src/encryption.rs  key derivation and the stream cipher           *)
(*   src/src/serial.rs      discovery, transport sessions, framing,        *)
(*                          decoding, the poll task and the read task      *)
(*   src/src/socketio.rs    the collecting flag, the emission handle and   *)
(*                          the start-snappy / stop-snappy handlers        *)
(*                                                                         *)
(* A u32 is a pair <<hi, lo>> of 16-bit halves (TLC integers are 32-bit    *)
(* signed, so a u32 does not fit in one).  A byte is 0..255.  A string is  *)
(* a sequence of one-character strings where its characters matter.        *)
(***************************************************************************)
EXTENDS Integers, Sequences, FiniteSets, TLC

VARIABLES
    \* ---- the cipher applied to drawn inputs (SpecCipher)
    cKey,       \* key: &[u8; 32]
    cCtr,       \* counter: u32
    cData,      \* the plaintext drawn
    cCipher,    \* the output of chacha20_encrypt, once computed
    cBuf,       \* the buffer the transforms are applied to
    cPhase,     \* "plain", "cipher" (encrypted), "round" (decrypted again),
                \* "called" (chacha20_encrypt was given a drawn output buffer)
    cCall,      \* that call: the buffer given, the buffer after, the outcome
    \* ---- the decoder applied to drawn frames (SpecDecoder)
    dMsg,       \* message: &[u8]
    dPid,       \* device_pid: u16
    dOut,       \* what the call did
    dSent,      \* the events emit_snap_data sent in the call
    dPhase,     \* "input", "done"
    \* ---- key derivation over a changing Cargo.toml (SpecKey)
    cargoToml,  \* the file load_key_from_cargo_toml reads
    kLog,       \* the derivations made so far: [b, h]
    \* ---- one transport session fed drawn reads (SpecSession)
    sPlatform,  \* "windows" (USB bulk path) or "other" (serial port path)
    sState,     \* "open", "closed" (session dropped), "dead" (task panicked)
    sAcc,       \* session.accumulator / data_buffer
    sHash,      \* hash: [u8; 32]
    sCounter,   \* counter: u32
    sPid,       \* device_pid
    sFed,       \* history: the bytes the session has read, in order
    sPassed,    \* history: the frames the session passed to the decoder
    sLog,       \* history: every [frame, data] decrypted since the tuple
    sFamily,    \* which family of streams the device produces
    sReads,     \* how many structured chunks have been read
    sLast,      \* history: what the latest read returned: "error", "zero"
                \* (Ok(0)), "bytes", or "none" before the first read
    \* ---- the start/stop handlers and the collection runs (Spec, SpecLive)
    platform,            \* "windows" or "other": which cfg(target_os) was built
    SNAPPY_COLLECTING,   \* the AtomicBool
    SNAPPY_SOCKET,       \* the registered client, or NoSocket
    attached,            \* the device on the bus, or NoDevice
    budget,              \* what the environment may still do
    runs,                \* how many times start_snappy_with_socket was spawned
    poll,                \* per run: the poll task
    hash_key,            \* per run: the shared Vec<u8> of serial bytes
    current_device_pid,  \* per run: the shared Option<u16>
    channel,             \* per run: the tuples in the mpsc channel
    reader,              \* per run: the read task and its session
    emitted,             \* history: the snappy-data events emitted
    stopped,             \* history: the runs a stop-snappy was processed for
    monitor,             \* per client: the task check_port_connection spawned
    polled,              \* history, per client: what each poll saw and emitted
    \* ---- find_connected_device_info applied to drawn buses (SpecDiscovery)
    fPlatform,  \* "windows" or "other"
    fPids,      \* pids: &[u16]
    fBus,       \* what the enumeration of the platform gives
    fOut,       \* the Option<(u16, String)> returned
    fPhase      \* "input", "done"

cipherVars == <<cKey, cCtr, cData, cCipher, cBuf, cPhase, cCall>>
decVars    == <<dMsg, dPid, dOut, dSent, dPhase>>
keyVars    == <<cargoToml, kLog>>
sessVars   == <<sPlatform, sState, sAcc, sHash, sCounter, sPid, sFed, sPassed,
                sLog, sFamily, sReads, sLast>>

monVars    == <<monitor, polled>>
orchVars   == <<platform, SNAPPY_COLLECTING, SNAPPY_SOCKET, attached, budget,
                runs, poll, hash_key, current_device_pid, channel, reader,
                emitted, stopped, monVars>>

findVars   == <<fPlatform, fPids, fBus, fOut, fPhase>>

vars == <<cipherVars, decVars, keyVars, sessVars, orchVars, findVars>>

----------------------------------------------------------------------------
(* 32-bit wrapping arithmetic on <<hi, lo>> pairs                          *)

\* a `let` binding: the bound expression is computed once, then used
Only(S) == CHOOSE x \in S : TRUE

RECURSIVE BitXor(_, _)
BitXor(a, b) ==
    IF a = 0 THEN b
    ELSE IF b = 0 THEN a
    ELSE ((a + b) % 2) + 2 * BitXor(a \div 2, b \div 2)

RECURSIVE BitOr(_, _)
BitOr(a, b) ==
    IF a = 0 THEN b
    ELSE IF b = 0 THEN a
    ELSE (IF (a % 2) + (b % 2) > 0 THEN 1 ELSE 0) + 2 * BitOr(a \div 2, b \div 2)

Pow2(n) == CASE n = 0 -> 1 [] n = 1 -> 2 [] n = 2 -> 4 [] n = 3 -> 8
             [] n = 4 -> 16 [] n = 5 -> 32 [] n = 6 -> 64 [] n = 7 -> 128
             [] n = 8 -> 256 [] n = 9 -> 512 [] n = 10 -> 1024 [] n = 11 -> 2048
             [] n = 12 -> 4096 [] n = 13 -> 8192 [] n = 14 -> 16384
             [] n = 15 -> 32768 [] n = 16 -> 65536

\* u32::wrapping_add
wrapping_add(a, b) ==
    LET lo == a[2] + b[2]
        hi == a[1] + b[1] + (lo \div 65536)
    IN  <<hi % 65536, lo % 65536>>

\* ^ on bytes, tabulated
XorTable == [a \in 0..255 |-> [b \in 0..255 |-> BitXor(a, b)]]

\* ^ on 16-bit halves
Xor16(a, b) == XorTable[a \div 256][b \div 256] * 256 + XorTable[a % 256][b % 256]

\* ^ on u32
xor32(a, b) == <<Xor16(a[1], b[1]), Xor16(a[2], b[2])>>

\* | on u32
or32(a, b) == <<BitOr(a[1], b[1]), BitOr(a[2], b[2])>>

\* u32::rotate_left, 0 < n < 32
rotate_left(x, n) ==
    LET y == IF n >= 16 THEN <<x[2], x[1]>> ELSE x
        m == IF n >= 16 THEN n - 16 ELSE n
    IN  IF m = 0 THEN y
        ELSE <<((y[1] * Pow2(m)) % 65536) + (y[2] \div Pow2(16 - m)),
               ((y[2] * Pow2(m)) % 65536) + (y[1] \div Pow2(16 - m))>>

\* (x * y) mod 2^16 for 16-bit x, y, without leaving the 32-bit integers
MulLo16(x, y) ==
    ((x % 256) * y + (((x \div 256) * y) % 256) * 256) % 65536

\* u32::wrapping_mul
wrapping_mul(a, b) ==
    LET p0    == (a[2] % 256) * b[2]
        p1    == (a[2] \div 256) * b[2]
        t     == p0 + (p1 % 256) * 256
        lo    == t % 65536
        carry == (t \div 65536) + (p1 \div 256)
        hi    == (carry + MulLo16(a[1], b[2]) + MulLo16(a[2], b[1])) % 65536
    IN  <<hi, lo>>

\* u32::from_le_bytes([b0, b1, b2, b3])
from_le_bytes(b0, b1, b2, b3) == <<b3 * 256 + b2, b1 * 256 + b0>>

\* u32::to_le_bytes
to_le_bytes(x) == <<x[2] % 256, x[2] \div 256, x[1] % 256, x[1] \div 256>>

\* `small as u32`
U32(n) == <<n \div 65536, n % 65536>>

----------------------------------------------------------------------------
(* encryption.rs: the stream cipher                                        *)

CHACHA20_BLOCK_SIZE == 64

\* two lines of chacha20_quarter_round: x = x + y; z = (z ^ x).rotate_left(n)
AddXorRotate(x, y, z, n) ==
    Only({ Only({ <<x1, rotate_left(t, n)>> : t \in {xor32(z, x1)} })
           : x1 \in {wrapping_add(x, y)} })

\* chacha20_quarter_round: state is a 16-sequence of u32, indices 0-based;
\* h1..h4 are the four add/xor/rotate pairs (lines 26-28, 30-32, 34-36, 38-40)
chacha20_quarter_round(state, a, b, c, d) ==
    Only({ Only({ Only({ Only({
        [state EXCEPT ![a + 1] = h3[1], ![b + 1] = h4[2],
                      ![c + 1] = h4[1], ![d + 1] = h3[2]]
        : h4 \in {AddXorRotate(h2[1], h3[2], h2[2], 7)} })
        : h3 \in {AddXorRotate(h1[1], h2[2], h1[2], 8)} })
        : h2 \in {AddXorRotate(state[c + 1], h1[2], state[b + 1], 12)} })
        : h1 \in {AddXorRotate(state[a + 1], state[b + 1], state[d + 1], 16)} })

\* the eight quarter rounds of one loop iteration: columns, then diagonals
QuarterRounds ==
    << <<0, 4, 8, 12>>, <<1, 5, 9, 13>>, <<2, 6, 10, 14>>, <<3, 7, 11, 15>>,
       <<0, 5, 10, 15>>, <<1, 6, 11, 12>>, <<2, 7, 8, 13>>, <<3, 4, 9, 14>> >>

\* quarter rounds k..8 of one iteration, applied in order
RECURSIVE ApplyQuarterRounds(_, _)
ApplyQuarterRounds(ws, k) ==
    IF k > Len(QuarterRounds) THEN ws
    ELSE Only({ ApplyQuarterRounds(next, k + 1)
                : next \in {chacha20_quarter_round(ws, QuarterRounds[k][1],
                                QuarterRounds[k][2], QuarterRounds[k][3],
                                QuarterRounds[k][4])} })

\* one iteration of the `for _ in 0..10` loop of chacha20_block
DoubleRound(ws) == ApplyQuarterRounds(ws, 1)

\* `for _ in 0..10`
RECURSIVE Rounds(_, _)
Rounds(ws, n) ==
    IF n = 0 THEN ws
    ELSE Only({ Rounds(next, n - 1) : next \in {DoubleRound(ws)} })

\* chacha20_block: the 64 keystream bytes of one block
chacha20_block(state) ==
    Only({ [k \in 1..CHACHA20_BLOCK_SIZE |->
               to_le_bytes(wrapping_add(working_state[((k - 1) \div 4) + 1],
                                        state[((k - 1) \div 4) + 1]))[((k - 1) % 4) + 1]]
           : working_state \in {Rounds(state, 10)} })

\* the initial 16-word state built by chacha20_encrypt
InitialState(key, nonce, counter) ==
    <<  <<24944, 30821>>, <<13088, 25710>>, <<31074, 11570>>, <<27424, 25972>>,
        from_le_bytes(key[1], key[2], key[3], key[4]),
        from_le_bytes(key[5], key[6], key[7], key[8]),
        from_le_bytes(key[9], key[10], key[11], key[12]),
        from_le_bytes(key[13], key[14], key[15], key[16]),
        from_le_bytes(key[17], key[18], key[19], key[20]),
        from_le_bytes(key[21], key[22], key[23], key[24]),
        from_le_bytes(key[25], key[26], key[27], key[28]),
        from_le_bytes(key[29], key[30], key[31], key[32]),
        counter,
        from_le_bytes(nonce[1], nonce[2], nonce[3], nonce[4]),
        from_le_bytes(nonce[5], nonce[6], nonce[7], nonce[8]),
        from_le_bytes(nonce[9], nonce[10], nonce[11], nonce[12]) >>

\* the `while i < input.len()` loop: `i` bytes are done, `out` holds them
RECURSIVE EncryptLoop(_, _, _, _)
EncryptLoop(state, input, i, out) ==
    IF i >= Len(input) THEN out
    ELSE Only({ Only({ EncryptLoop(next, input, i + Len(blk), done)
                       : done \in {out \o blk} })
                : next \in {[state EXCEPT ![13] = wrapping_add(state[13], <<0, 1>>)]},
                  blk \in {Only({ [k \in 1..(IF Len(input) - i < CHACHA20_BLOCK_SIZE
                                           THEN Len(input) - i
                                           ELSE CHACHA20_BLOCK_SIZE)
                                    |-> XorTable[input[i + k]][keystream[k]]]
                                  : keystream \in {chacha20_block(state)} })} })

\* a transform that never advances state[12]: every block is the first one
chacha20_encrypt_fixed_counter(key, nonce, counter, input) ==
    Only({ [k \in 1..Len(input) |->
               XorTable[input[k]][keystream[((k - 1) % CHACHA20_BLOCK_SIZE) + 1]]]
           : keystream \in {chacha20_block(InitialState(key, nonce, counter))} })

\* chacha20_encrypt with an output buffer of input.len() bytes (the assert_eq
\* of line 92 holds); the result is the output buffer
chacha20_encrypt(key, nonce, counter, input) ==
    Only({ EncryptLoop(state, text, 0, <<>>)
           : state \in {InitialState(key, nonce, counter)}, text \in {input} })

\* a transform without the assert_eq of line 92: `output[i] = ..` writes as
\* far as the output buffer reaches and panics past its end
chacha20_encrypt_unchecked(key, nonce, counter, input, output) ==
    Only({ [panicked |-> Len(input) > Len(output),
            output   |-> [k \in 1..Len(output) |->
                            IF k <= Len(input) THEN full[k] ELSE output[k]]]
           : full \in {chacha20_encrypt(key, nonce, counter, input)} })

\* chacha20_encrypt with the output buffer the caller passes: whether the call
\* panicked, and the output buffer after it
chacha20_encrypt_into(key, nonce, counter, input, output) ==
    IF Len(input) # Len(output)
    THEN [panicked |-> TRUE, output |-> output]
    ELSE [panicked |-> FALSE,
          output   |-> chacha20_encrypt(key, nonce, counter, input)]

\* a decrypt entry point that passes an all-zero nonce instead of the key
chacha20_decrypt_zero_nonce(key, counter, ciphertext) ==
    chacha20_encrypt(key, [i \in 1..32 |-> 0], counter, ciphertext)

\* chacha20_decrypt: the key is passed as the nonce
chacha20_decrypt(key, counter, ciphertext) ==
    chacha20_encrypt(key, key, counter, ciphertext)

----------------------------------------------------------------------------
(* encryption.rs: key derivation                                           *)

\* the built-in key vector (lines 18-20 and 124-126)
DEFAULT_KEY ==
    << <<39983, 27972>>, <<42635, 12665>>, <<62145, 48650>>, <<32084, 50161>>,
       <<15889, 36203>>, <<20235, 37607>>, <<7596, 30812>>,  <<58899, 12200>> >>

MAGIC1 == <<40503, 31161>>
MAGIC2 == <<34283, 51819>>
MAGIC3 == <<49842, 44597>>

(* The file Cargo.toml in the working directory, as load_key_from_cargo_toml
   sees it: kind is "unreadable" (fs::read_to_string fails), "unparsable"
   (toml::from_str fails), "no_metadata", "no_encryption", or "key" with the
   words of [package.metadata.encryption] key.                             *)
CargoFile(kind, key) == [kind |-> kind, key |-> key]

\* r(&mut x, y): the new value of x
r(x, y) ==
    Only({ Only({ Only({ Only({ Only({ wrapping_mul(x2, MAGIC3)
        : x2 \in {rotate_left(x1, 13)} })
        : x1 \in {xor32(x, m)} })
        : m \in {wrapping_mul(s, o)} })
        : o \in {or32(x, MAGIC2)} })
        : s \in {wrapping_add(y, MAGIC1)} })

\* w(h, x, i): the four bytes written at h[i*4 .. (i+1)*4]
w(x) == to_le_bytes(x)

\* the `for i in 0..b.len()` loop of hash_serial, from index i (0-based)
RECURSIVE MixLoop(_, _, _)
MixLoop(v, b, i) ==
    IF i >= Len(b) THEN v
    ELSE Only({ Only({ MixLoop([v EXCEPT ![(i % 8) + 1] = x], b, i + 1)
                       : x \in {r(v[(i % 8) + 1], y)} })
                : y \in {U32(b[i + 1] + i)} })

\* a derivation that writes the state words in their own order
hash_serial_loops_sequential(v0, b) ==
    Only({
        [k \in 1..32 |-> w(v[((k - 1) \div 4) + 1])[((k - 1) % 4) + 1]]
        : v \in {MixLoop(v0, b, 0)} })

\* the two loops of hash_serial over the key vector v0: the 32 bytes of h
hash_serial_loops(v0, b) ==
    Only({
        [k \in 1..32 |-> w(v[((((k - 1) \div 4) * 5) % 8) + 1])[((k - 1) % 4) + 1]]
        : v \in {MixLoop(v0, b, 0)} })

\* a loader that never looks at the configured key
load_key_ignoring_metadata(cargo) ==
    IF cargo.kind \in {"unreadable", "unparsable"}
    THEN [ok |-> FALSE, val |-> <<>>]
    ELSE [ok |-> TRUE, val |-> DEFAULT_KEY]

\* load_key_from_cargo_toml: [ok |-> FALSE] is Err, else Ok(val)
load_key_from_cargo_toml(cargo) ==
    IF cargo.kind \in {"unreadable", "unparsable"}
    THEN [ok |-> FALSE, val |-> <<>>]
    ELSE IF cargo.kind = "key" /\ Len(cargo.key) = 8
         THEN [ok |-> TRUE, val |-> cargo.key]
         ELSE [ok |-> TRUE, val |-> DEFAULT_KEY]

\* hash_serial(b, h): the 32 bytes written to h; the key vector is read from
\* Cargo.toml by this very call
hash_serial(b, cargo) ==
    Only({ Only({ hash_serial_loops(v0, b)
        : v0 \in {IF loaded.ok THEN loaded.val ELSE DEFAULT_KEY} })
        : loaded \in {load_key_from_cargo_toml(cargo)} })

----------------------------------------------------------------------------
(* serial.rs / models.rs / socketio.rs: the message decoder                *)

EXPECTED_PREFIX == <<83, 78, 65, 80, 80, 89, 58>>

HexDigits == <<"0", "1", "2", "3", "4", "5", "6", "7",
               "8", "9", "a", "b", "c", "d", "e", "f">>

\* write!(&mut mac_str, "{:02x}:", mb)
FormatOctet(mb) == <<HexDigits[(mb \div 16) + 1], HexDigits[(mb % 16) + 1], ":">>

RECURSIVE FormatMac(_)
FormatMac(mac_bytes) ==
    IF mac_bytes = <<>> THEN <<>>
    ELSE FormatOctet(Head(mac_bytes)) \o FormatMac(Tail(mac_bytes))

\* str::trim_end_matches(':')
RECURSIVE trim_end_matches(_)
trim_end_matches(str) ==
    IF Len(str) > 0 /\ str[Len(str)] = ":"
    THEN trim_end_matches(SubSeq(str, 1, Len(str) - 1))
    ELSE str

\* the two value bytes read little-endian
device_value_little_endian(dev_value) ==
    BitOr((dev_value[2] * 256) % 65536, dev_value[1])

\* ((dev_value[0] as u16) << 8) | (dev_value[1] as u16)
device_value(dev_value) == BitOr((dev_value[1] * 256) % 65536, dev_value[2])

NoEvent == [kind |-> "none", mac |-> <<>>, value |-> 0, pid |-> 0]
Panic   == [kind |-> "panic", mac |-> <<>>, value |-> 0, pid |-> 0]

(* process_serial_message_with_emit up to its call of emit_snap_data: the
   arguments of that call (kind "emit"), nothing (kind "none"), or a panic:
   `&message[13..15]` on a message of 14 bytes is out of range.            *)
process_serial_message_with_emit(message, device_pid) ==
    IF Len(message) >= 14 /\ SubSeq(message, 1, 7) = EXPECTED_PREFIX
    THEN IF Len(message) < 15
         THEN Panic
         ELSE [kind  |-> "emit",
               mac   |-> trim_end_matches(FormatMac(SubSeq(message, 8, 13))),
               value |-> device_value(SubSeq(message, 14, 15)),
               pid   |-> device_pid]
    ELSE NoEvent

NoSocket == 0
Clients == {1, 2}

\* an emit_snap_data that sends the event whether or not a socket is registered
emit_snap_data_unguarded(registered, mac, value, pid) ==
    <<[to |-> registered, mac |-> mac, value |-> value, pid |-> pid]>>

\* emit_snap_data: the snappy-data events sent (none when no socket is
\* registered), each to the registered socket
emit_snap_data(registered, mac, value, pid) ==
    IF registered = NoSocket THEN <<>>
    ELSE <<[to |-> registered, mac |-> mac, value |-> value, pid |-> pid]>>

----------------------------------------------------------------------------
(* serial.rs: frame accumulation on the two transport paths                *)

MAX_ACCUMULATOR == 4096
READ_BUFFER_SIZE == 64
CR == 13
LF == 10

\* buf.windows(2).position(|w| w == b"\r\n"): 0-based, -1 for None
DelimiterPos(buf) ==
    LET hits == {i \in 1..(Len(buf) - 1) : buf[i] = CR /\ buf[i + 1] = LF}
    IN  IF hits = {} THEN -1
        ELSE (CHOOSE i \in hits : \A j \in hits : i <= j) - 1

\* a counter shared with the cipher, which advances it once per block
counter_carried_over(counter, ciphertext) ==
    wrapping_add(counter, U32((Len(ciphertext) + CHACHA20_BLOCK_SIZE - 1)
                                  \div CHACHA20_BLOCK_SIZE))

\* `counter: u32` is passed to chacha20_decrypt by value: the increments of
\* state[12] inside the cipher do not reach the caller's counter
counter_after_decrypt(counter, ciphertext) == counter

(* A transport read: [ok |-> TRUE, bytes |-> the bytes read (possibly none)]
   or [ok |-> FALSE] for Err.                                              *)
ReadOk(bytes) == [ok |-> TRUE, bytes |-> bytes]
ReadErr == [ok |-> FALSE, bytes |-> <<>>]

(* read_snappy_data_via_usb on a session with accumulator acc, the bulk read
   returning rd.  ret is "frame" (Some(Ok(data))), "read_error" or "overflow"
   (both Some(Err(..))), or "none" (None).                                 *)
read_snappy_data_via_usb(acc, rd, hash, counter) ==
    IF ~rd.ok
    THEN [acc |-> acc, ret |-> "read_error", frame |-> <<>>, data |-> <<>>]
    ELSE Only({
             IF Len(acc1) > MAX_ACCUMULATOR
             THEN [acc |-> <<>>, ret |-> "overflow", frame |-> <<>>, data |-> <<>>]
             ELSE Only({
                  IF pos >= 0
                  THEN [acc   |-> SubSeq(acc1, pos + 3, Len(acc1)),
                        ret   |-> "frame",
                        frame |-> SubSeq(acc1, 1, pos),
                        data  |-> chacha20_decrypt(hash, counter, SubSeq(acc1, 1, pos))]
                  ELSE [acc |-> acc1, ret |-> "none", frame |-> <<>>, data |-> <<>>]
                  : pos \in {DelimiterPos(acc1)} })
             : acc1 \in {acc \o rd.bytes} })

(* The `while let Some(pos) = ...` loop of the serial read loop: decrypts and
   decodes every complete frame of buf.  log is the sequence of
   [frame, data, out] handled so far; the loop ends early when the decoder
   panics.                                                                 *)
RECURSIVE SerialDrain(_, _, _, _, _)
SerialDrain(buf, hash, counter, device_pid, log) ==
    Only({
        IF pos < 0
        THEN [buf |-> buf, log |-> log, panicked |-> FALSE, counter |-> counter]
        ELSE Only({ Only({ Only({ Only({
                 IF out.kind = "panic"
                 THEN [buf |-> buf, log |-> done, panicked |-> TRUE,
                       counter |-> counter]
                 ELSE SerialDrain(SubSeq(buf, pos + 3, Len(buf)), hash,
                                  counter_after_decrypt(counter, message),
                                  device_pid, done)
                 : done \in {Append(log, [frame |-> message, data |-> decrypted,
                                          out |-> out])} })
                 : out \in {process_serial_message_with_emit(decrypted, device_pid)} })
                 : decrypted \in {chacha20_decrypt(hash, counter, message)} })
                 : message \in {SubSeq(buf, 1, pos)} })
        : pos \in {DelimiterPos(buf)} })

\* a read loop that drops data_buffer when a read returns nothing
serial_read_reset_on_empty(data_buffer, rd, hash, counter, device_pid) ==
    IF rd.ok /\ Len(rd.bytes) > 0
    THEN Only({ SerialDrain(buf, hash, counter, device_pid, <<>>)
                : buf \in {data_buffer \o rd.bytes} })
    ELSE [buf |-> <<>>, log |-> <<>>, panicked |-> FALSE, counter |-> counter]

(* One `match port.read(&mut buffer)` of the serial read loop on data_buffer:
   Ok(n) with n > 0 appends and drains; anything else only sleeps.         *)
serial_read(data_buffer, rd, hash, counter, device_pid) ==
    IF rd.ok /\ Len(rd.bytes) > 0
    THEN Only({ SerialDrain(buf, hash, counter, device_pid, <<>>)
                : buf \in {data_buffer \o rd.bytes} })
    ELSE [buf |-> data_buffer, log |-> <<>>, panicked |-> FALSE, counter |-> counter]

----------------------------------------------------------------------------
(* Inputs shared by the specifications                                     *)

\* Chars of a device serial number, as `c as u32`
SerialA == <<65, 66, 49, 50>>
SerialB == <<90, 57, 120, 33, 300>>

\* serial_number.chars().map(|c| c as u32).take(16).map(|&c| c as u8)
serial_number_u8(serial_number) ==
    [i \in 1..(IF Len(serial_number) < 16 THEN Len(serial_number) ELSE 16)
        |-> serial_number[i] % 256]

DefaultCargo == CargoFile("no_metadata", <<>>)

\* a configured key vector of 8 words, and one of 7
ConfiguredKey ==
    << <<1, 2>>, <<3, 4>>, <<5, 6>>, <<7, 8>>,
       <<9, 10>>, <<11, 12>>, <<13, 14>>, <<65535, 65535>> >>

CargoFiles ==
    { CargoFile("unreadable", <<>>), CargoFile("unparsable", <<>>),
      CargoFile("no_metadata", <<>>), CargoFile("no_encryption", <<>>),
      CargoFile("key", ConfiguredKey), CargoFile("key", SubSeq(ConfiguredKey, 1, 7)) }

KeyA == hash_serial(serial_number_u8(SerialA), DefaultCargo)
KeyB == hash_serial(serial_number_u8(SerialB), DefaultCargo)

\* "SNAPPY:" 01 02 03 04 05 06 00 2a
PlainA == EXPECTED_PREFIX \o <<1, 2, 3, 4, 5, 6, 0, 42>>
\* "SNAPPY:" ab cd ef 00 ff 10 ff fe, and two trailing bytes
PlainB == EXPECTED_PREFIX \o <<171, 205, 239, 0, 255, 16, 255, 254, 7, 9>>

CipherIdle ==
    /\ cKey = <<>> /\ cCtr = <<0, 0>> /\ cData = <<>> /\ cCipher = <<>>
    /\ cBuf = <<>> /\ cPhase = "off" /\ cCall = <<>>
DecoderIdle ==
    dMsg = <<>> /\ dPid = 0 /\ dOut = NoEvent /\ dSent = <<>> /\ dPhase = "off"
KeyIdle == cargoToml = DefaultCargo /\ kLog = <<>>
SessionIdle ==
    /\ sPlatform = "off" /\ sState = "off" /\ sAcc = <<>> /\ sHash = <<>>
    /\ sCounter = <<0, 0>> /\ sPid = 0 /\ sFed = <<>> /\ sPassed = <<>>
    /\ sLog = <<>> /\ sFamily = "off" /\ sReads = 0 /\ sLast = "off"
FindIdle ==
    fPlatform = "off" /\ fPids = <<>> /\ fBus = <<>> /\ fOut = <<>> /\ fPhase = "off"
TasksIdle ==
    /\ platform = "off"
    /\ attached = <<>> /\ budget = <<>> /\ runs = 0 /\ poll = <<>>
    /\ monitor = <<>> /\ polled = <<>>
    /\ hash_key = <<>> /\ current_device_pid = <<>> /\ channel = <<>>
    /\ reader = <<>> /\ emitted = <<>> /\ stopped = {}
OrchIdle ==
    SNAPPY_COLLECTING = FALSE /\ SNAPPY_SOCKET = NoSocket /\ TasksIdle

----------------------------------------------------------------------------
(* SpecCipher: encrypt, then decrypt, drawn inputs                         *)

CipherKeys == {KeyA, [i \in 1..32 |-> 0], [i \in 1..32 |-> 255]}
CipherCounters == {<<0, 0>>, <<0, 1>>, <<65535, 65535>>}
CipherLens == {0, 1, 15, CHACHA20_BLOCK_SIZE, CHACHA20_BLOCK_SIZE + 1}
CipherInputs ==
    {[i \in 1..n |-> (i * 37 + seed) % 256] : n \in CipherLens, seed \in {0, 200}}

InitCipher ==
    /\ cKey \in CipherKeys
    /\ cCtr \in CipherCounters
    /\ cData \in CipherInputs
    /\ cCipher = <<>>
    /\ cBuf = cData
    /\ cPhase = "plain"
    /\ cCall = <<>>
    /\ DecoderIdle /\ KeyIdle /\ SessionIdle /\ OrchIdle /\ FindIdle

\* the device side: chacha20_encrypt with the key as the nonce
Encrypt ==
    /\ cPhase = "plain"
    /\ cBuf' = chacha20_encrypt(cKey, cKey, cCtr, cBuf)
    /\ cCipher' = cBuf'
    /\ cPhase' = "cipher"
    /\ UNCHANGED <<cKey, cCtr, cData, cCall, decVars, keyVars, sessVars, orchVars,
                   findVars>>

\* the agent side: chacha20_decrypt
Decrypt ==
    /\ cPhase = "cipher"
    /\ cBuf' = chacha20_decrypt(cKey, cCtr, cBuf)
    /\ cPhase' = "round"
    /\ UNCHANGED <<cKey, cCtr, cData, cCipher, cCall, decVars, keyVars, sessVars,
                   orchVars, findVars>>

\* the output buffers a caller may pass for an input of n bytes: of the same
\* length or not, holding bytes of its own
OutputBuffers(n) ==
    {[k \in 1..m |-> 170] : m \in {0, 1, n, n + 1, CHACHA20_BLOCK_SIZE}}

\* chacha20_encrypt called with the output buffer `output`
EncryptInto(output) ==
    /\ cPhase = "plain"
    /\ \E res \in {chacha20_encrypt_into(cKey, cKey, cCtr, cData, output)} :
         cCall' = [given |-> output, after |-> res.output,
                   panicked |-> res.panicked]
    /\ cPhase' = "called"
    /\ UNCHANGED <<cKey, cCtr, cData, cCipher, cBuf, decVars, keyVars, sessVars,
                   orchVars, findVars>>

NextCipher ==
    \/ Encrypt
    \/ Decrypt
    \/ \E output \in OutputBuffers(Len(cData)) : EncryptInto(output)

SpecCipher == InitCipher /\ [][NextCipher]_vars

(* C8: for every key, counter and byte sequence drawn, chacha20_decrypt
   applied to the output of chacha20_encrypt (same key, same counter, the key
   as the nonce) gives back the original bytes, and each transform keeps the
   length.                                                                 *)
C8_RoundTrip ==
    /\ cPhase \in {"cipher", "round"} => Len(cBuf) = Len(cData)
    /\ cPhase = "round" => cBuf = cData

\* a two-block plaintext that encryption changed has been decrypted again
C8_Witness ==
    /\ cPhase = "round"
    /\ Len(cData) > CHACHA20_BLOCK_SIZE
    /\ cCipher # cData
    /\ cCtr = <<65535, 65535>>
    /\ cBuf = cData

\* the keystream block with block counter counter + b (mod 2^32)
BlockOf(b) == chacha20_block(InitialState(cKey, cKey, wrapping_add(cCtr, U32(b))))

(* C26: byte i of the output of chacha20_encrypt (i from 0) is input byte i
   XOR byte i mod 64 of the keystream block whose block counter is the
   starting counter plus floor(i / 64), modulo 2^32; the output has as many
   bytes as the input, so a last partial block uses only the keystream bytes
   it needs.                                                               *)
C26_KeystreamPerBlock ==
    cPhase = "cipher" =>
        /\ Len(cCipher) = Len(cData)
        /\ \A b \in 0..((Len(cData) - 1) \div CHACHA20_BLOCK_SIZE) :
              \E keystream \in {BlockOf(b)} :
                 \A i \in 0..(Len(cData) - 1) :
                    i \div CHACHA20_BLOCK_SIZE = b =>
                        cCipher[i + 1] =
                            XorTable[cData[i + 1]][keystream[(i % CHACHA20_BLOCK_SIZE) + 1]]

\* an input of one block and one byte was encrypted from the largest counter:
\* the counter wrapped to 0 for the last byte, and the blocks differ
C26_Witness ==
    /\ cPhase = "cipher"
    /\ Len(cData) = CHACHA20_BLOCK_SIZE + 1
    /\ cCtr = <<65535, 65535>>
    /\ cCipher[65] = XorTable[cData[65]][
                         chacha20_block(InitialState(cKey, cKey, <<0, 0>>))[1]]
    /\ BlockOf(0)[1] # BlockOf(1)[1]

(* C21: chacha20_encrypt given an output buffer whose length differs from the
   input's panics and leaves every byte of the output buffer as it was;
   given a buffer of the input's length, the empty one included, it returns
   with that buffer filled.                                                *)
C21_LengthMismatchFatal ==
    cPhase = "called" =>
        IF Len(cCall.given) # Len(cData)
        THEN cCall.panicked /\ cCall.after = cCall.given
        ELSE /\ ~cCall.panicked
             /\ Len(cCall.after) = Len(cData)
             /\ cCall.after = chacha20_encrypt(cKey, cKey, cCtr, cData)

\* a one-byte output buffer was passed for a two-block input and the call
\* panicked
C21_Witness ==
    /\ cPhase = "called"
    /\ Len(cData) = CHACHA20_BLOCK_SIZE + 1 /\ cCall.given = <<170>>
    /\ cCall.panicked /\ cCall.after = <<170>>

----------------------------------------------------------------------------
(* SpecDecoder: process_serial_message_with_emit on drawn frames           *)

DecoderFull ==
    { PlainA \o <<0, 0>>,
      PlainB,
      <<83, 78, 65, 80, 80, 89, 59>> \o SubSeq(PlainB, 8, 17),
      <<115>> \o SubSeq(PlainA, 2, 15) \o <<1, 1>>,
      EXPECTED_PREFIX \o <<0, 0, 0, 0, 0, 0, 1, 0, 58, 58>>,
      EXPECTED_PREFIX \o <<10, 160, 9, 255, 15, 240, 128, 128, 3, 4>> }

\* every prefix of the full messages: lengths 0..17
DecoderInputs == {SubSeq(m, 1, n) : m \in DecoderFull, n \in 0..17}

PIDS == <<21768, 32853>>
VID == 45488

InitDecoder ==
    /\ dMsg \in DecoderInputs
    /\ dPid \in {PIDS[1], PIDS[2]}
    /\ dOut = NoEvent
    /\ dSent = <<>>
    /\ dPhase = "input"
    /\ SNAPPY_COLLECTING \in BOOLEAN
    /\ SNAPPY_SOCKET \in {NoSocket} \cup Clients
    /\ CipherIdle /\ KeyIdle /\ SessionIdle /\ TasksIdle /\ FindIdle

\* serial.rs 466-487: one call of the decoder, with the emit_snap_data it
\* makes for an accepted frame
Decode ==
    /\ dPhase = "input"
    /\ \E out \in {process_serial_message_with_emit(dMsg, dPid)} :
         /\ dOut' = out
         /\ dSent' = IF out.kind = "emit"
                     THEN emit_snap_data(SNAPPY_SOCKET, out.mac, out.value, out.pid)
                     ELSE <<>>
    /\ dPhase' = "done"
    /\ UNCHANGED <<dMsg, dPid, cipherVars, keyVars, sessVars, orchVars, findVars>>

NextDecoder == Decode

SpecDecoder == InitDecoder /\ [][NextDecoder]_vars

Accepts(message) ==
    Len(message) >= 14 /\ SubSeq(message, 1, 7) = EXPECTED_PREFIX

(* C6: for a frame of any length the decoder completes without a fault, and
   it emits exactly one event when the frame has at least 14 bytes and starts
   with the magic prefix, nothing otherwise.                               *)
C6_DecoderTotal ==
    dPhase = "done" =>
        /\ dOut.kind # "panic"
        /\ (dOut.kind = "emit") <=> Accepts(dMsg)

(* C7: an emitted identifier is bytes 7..12 as six two-digit lowercase hex
   octets joined by colons, with no trailing colon; the value is
   256 * byte 13 + byte 14; bytes after index 14 do not change the event.  *)
C7_DecodedFields ==
    (dPhase = "done" /\ dOut.kind = "emit") =>
        /\ Len(dOut.mac) = 17
        /\ \A i \in 0..5 :
              /\ dOut.mac[3 * i + 1] = HexDigits[(dMsg[8 + i] \div 16) + 1]
              /\ dOut.mac[3 * i + 2] = HexDigits[(dMsg[8 + i] % 16) + 1]
              /\ i < 5 => dOut.mac[3 * i + 3] = ":"
        /\ dOut.value = 256 * dMsg[14] + dMsg[15]
        /\ dOut.pid = dPid
        /\ dOut = process_serial_message_with_emit(SubSeq(dMsg, 1, 15), dPid)

\* a 17-byte frame with identifier ab:cd:ef:00:ff:10 and value 0xfffe decoded
C7_Witness ==
    /\ dPhase = "done" /\ dOut.kind = "emit"
    /\ Len(dMsg) = 17
    /\ dOut.mac = <<"a","b",":","c","d",":","e","f",":","0","0",":","f","f",":","1","0">>
    /\ dOut.value = 65534

----------------------------------------------------------------------------
(* SpecKey: key derivations while Cargo.toml may change on disk            *)

MaxDerivations == 3

\* identity bytes of a serial longer than the 8 state words
SerialLong == <<83, 78, 45, 48, 48, 49, 50, 51, 52, 255>>

KeyIdentities ==
    {serial_number_u8(SerialA), serial_number_u8(SerialB), <<>>,
     serial_number_u8(SerialLong)}

InitKey ==
    /\ cargoToml \in CargoFiles
    /\ kLog = <<>>
    /\ CipherIdle /\ DecoderIdle /\ SessionIdle /\ OrchIdle /\ FindIdle

\* a call hash_serial(b, &mut h)
Derive(b) ==
    /\ Len(kLog) < MaxDerivations
    /\ kLog' = Append(kLog, [b |-> b, h |-> hash_serial(b, cargoToml)])
    /\ UNCHANGED <<cargoToml, cipherVars, decVars, sessVars, orchVars, findVars>>

\* the file is edited, replaced or removed while the process runs
CargoChange(file) ==
    /\ file # cargoToml
    /\ cargoToml' = file
    /\ UNCHANGED <<kLog, cipherVars, decVars, sessVars, orchVars, findVars>>

NextKey ==
    \/ \E b \in KeyIdentities : Derive(b)
    \/ \E file \in CargoFiles : CargoChange(file)

SpecKey == InitKey /\ [][NextKey]_vars

(* C10: two key derivations over the same identity bytes, at any two moments
   of one process lifetime, yield the same 32-byte key.                    *)
C10_SameKeyAlways ==
    \A i, j \in 1..Len(kLog) :
        kLog[i].b = kLog[j].b => kLog[i].h = kLog[j].h

\* the key vector the configuration supplies: its key when that has exactly
\* 8 words, otherwise none
SuppliedKey(cargo) ==
    IF cargo.kind = "key" /\ Len(cargo.key) = 8 THEN <<cargo.key>> ELSE <<>>

(* C11: a key derivation uses the configured key vector when the
   configuration supplies a key of exactly 8 words, and the built-in default
   vector when the configuration is unreadable, malformed, without a key or
   with a key of another length; it always yields its 32 bytes.            *)
C11_KeyVectorUsed ==
    [][ Len(kLog') > Len(kLog) =>
          LET e == kLog'[Len(kLog')]
              supplied == SuppliedKey(cargoToml)
          IN  /\ Len(e.h) = 32
              /\ e.h = hash_serial_loops(IF supplied # <<>> THEN supplied[1]
                                         ELSE DEFAULT_KEY, e.b) ]_vars

\* the empty identity derived under the 8-word key, then under the 7-word key
C11_Witness ==
    /\ Len(kLog) = 2
    /\ kLog[1].b = <<>> /\ kLog[2].b = <<>>
    /\ kLog[1].h = hash_serial_loops(ConfiguredKey, <<>>)
    /\ kLog[2].h = hash_serial_loops(DEFAULT_KEY, <<>>)
    /\ cargoToml = CargoFile("key", SubSeq(ConfiguredKey, 1, 7))

\* state word j (0-based) after the mixing rounds of the input bytes at
\* indices i, i + 8, i + 16, ..: the bytes whose index is j modulo 8
RECURSIVE WordAfter(_, _, _)
WordAfter(x, b, i) ==
    IF i >= Len(b) THEN x
    ELSE WordAfter(r(x, U32(b[i + 1] + i)), b, i + 8)

\* the key vector a derivation made now starts from
VectorNow ==
    IF SuppliedKey(cargoToml) # <<>> THEN SuppliedKey(cargoToml)[1] ELSE DEFAULT_KEY

(* C27: in a key derivation every state word j receives the mixing rounds of
   exactly the input bytes at the indices congruent to j modulo 8, in
   increasing order, and the key is 8 little-endian groups of 4 bytes, group
   g being state word 5 * g mod 8, so that each word is written once; for
   empty input the key is the key vector itself in that order.             *)
C27_MixAndSerialise ==
    [][ Len(kLog') > Len(kLog) =>
          LET e == kLog'[Len(kLog')]
          IN  /\ {(5 * g) % 8 : g \in 0..7} = 0..7
              /\ \A g \in 0..7 :
                    SubSeq(e.h, 4 * g + 1, 4 * g + 4) =
                        to_le_bytes(WordAfter(VectorNow[((5 * g) % 8) + 1], e.b,
                                              (5 * g) % 8))
              /\ e.b = <<>> =>
                    \A g \in 0..7 :
                        SubSeq(e.h, 4 * g + 1, 4 * g + 4) =
                            to_le_bytes(VectorNow[((5 * g) % 8) + 1]) ]_vars

\* a key was derived from ten identity bytes, so that word 0 was mixed with
\* bytes 0 and 8, and one from no bytes: group 1 of the latter is word 5 of
\* the built-in vector
C27_Witness ==
    /\ Len(kLog) = 2
    /\ kLog[1].b = serial_number_u8(SerialLong)
    /\ kLog[2].b = <<>>
    /\ SubSeq(kLog[2].h, 5, 8) = to_le_bytes(DEFAULT_KEY[6])
    /\ SubSeq(kLog[1].h, 1, 4) =
           to_le_bytes(r(r(DEFAULT_KEY[1], U32(kLog[1].b[1])), U32(kLog[1].b[9] + 8)))
    /\ SubSeq(kLog[1].h, 1, 4) # SubSeq(kLog[2].h, 1, 4)

----------------------------------------------------------------------------
(* SpecSession: one transport session of the read task, on either transport
   path, fed reads drawn from a device that encrypts with KeyA.  It starts
   where the read task has derived the key and holds a fresh session.      *)

MaxStructuredReads == 3

CipherA  == chacha20_encrypt(KeyA, KeyA, <<0, 0>>, PlainA)
CipherB  == chacha20_encrypt(KeyA, KeyA, <<0, 0>>, <<1, 2, 3>>)
\* a frame of 14 bytes with the magic prefix
Cipher14 == chacha20_encrypt(KeyA, KeyA, <<0, 0>>, SubSeq(PlainA, 1, 14))

FrameA == CipherA \o <<CR, LF>>
FrameB == CipherB \o <<CR, LF>>

\* structured chunks: whole frames, split frames, a split delimiter, two
\* frames in one read, an empty frame; a frame may also follow line noise
\* that has filled the accumulator to its limit
StructuredChunks ==
    { FrameA, FrameB, FrameA \o FrameB,
      SubSeq(FrameA, 1, 5), SubSeq(FrameA, 6, Len(FrameA) - 1), <<LF>>,
      <<CR, LF>>, Cipher14 \o <<CR, LF>> }

\* a full read buffer of line noise, no delimiter in it
NoiseChunk == [i \in 1..READ_BUFFER_SIZE |-> 85]

InitSession ==
    /\ sPlatform \in {"windows", "other"}
    /\ sState = "open"
    /\ sAcc = <<>>
    /\ sHash = KeyA
    /\ sCounter = <<0, 0>>
    /\ sPid = PIDS[1]
    /\ sFed = <<>> /\ sPassed = <<>> /\ sLog = <<>>
    /\ sFamily = "fresh"
    /\ sReads = 0
    /\ sLast = "none"
    /\ CipherIdle /\ DecoderIdle /\ KeyIdle /\ OrchIdle /\ FindIdle

\* what the device delivers to one read call
ReadAllowed(rd) ==
    \/ ~rd.ok
    \/ rd.bytes = <<>>
    \/ /\ rd.bytes \in StructuredChunks
       /\ sFamily \in {"fresh", "structured"}
       /\ sReads < MaxStructuredReads
    \/ /\ rd.bytes = NoiseChunk
       /\ sFamily \in {"fresh", "noise"}
       /\ Len(sAcc) <= MAX_ACCUMULATOR + READ_BUFFER_SIZE
    \/ /\ rd.bytes = FrameB          \* the noise ends and a frame follows
       /\ sFamily = "noise"
       /\ Len(sAcc) = MAX_ACCUMULATOR

Reads == {ReadErr, ReadOk(<<>>), ReadOk(NoiseChunk)} \cup {ReadOk(c) : c \in StructuredChunks}

FamilyAfter(rd) ==
    IF ~rd.ok \/ rd.bytes = <<>> THEN sFamily
    ELSE IF rd.bytes = NoiseChunk THEN "noise" ELSE "structured"

ReadsAfter(rd) ==
    IF rd.ok /\ rd.bytes \in StructuredChunks THEN sReads + 1 ELSE sReads

ReadKind(rd) ==
    IF ~rd.ok THEN "error" ELSE IF rd.bytes = <<>> THEN "zero" ELSE "bytes"

\* lines 383-401: one read_snappy_data_via_usb call and the match on its result
SessionUsbRead(rd) ==
    /\ sPlatform = "windows" /\ sState = "open"
    /\ ReadAllowed(rd)
    /\ \E res \in {read_snappy_data_via_usb(sAcc, rd, sHash, sCounter)} :
       \E out \in {process_serial_message_with_emit(res.data, sPid)} :
           /\ sFed' = IF rd.ok THEN sFed \o rd.bytes ELSE sFed
           /\ IF res.ret = "frame"
              THEN /\ sPassed' = Append(sPassed, res.frame)
                   /\ sLog' = Append(sLog, [frame |-> res.frame, data |-> res.data])
                   /\ sCounter' = counter_after_decrypt(sCounter, res.frame)
                   /\ sState' = IF out.kind = "panic" THEN "dead" ELSE "open"
                   /\ sAcc' = res.acc
              ELSE /\ UNCHANGED <<sPassed, sLog, sCounter>>
                   /\ IF res.ret \in {"read_error", "overflow"}
                      THEN sState' = "closed" /\ sAcc' = <<>>   \* session = None
                      ELSE sState' = "open" /\ sAcc' = res.acc
    /\ sFamily' = FamilyAfter(rd)
    /\ sReads' = ReadsAfter(rd)
    /\ sLast' = ReadKind(rd)
    /\ UNCHANGED <<sPlatform, sHash, sPid, cipherVars, decVars, keyVars, orchVars, findVars>>

\* lines 362-372: the next iteration opens a new session
SessionUsbReopen ==
    /\ sPlatform = "windows" /\ sState = "closed"
    /\ sState' = "open"
    /\ sAcc' = <<>> /\ sFed' = <<>> /\ sPassed' = <<>>
    /\ UNCHANGED <<sPlatform, sHash, sCounter, sPid, sLog, sFamily, sReads, sLast,
                   cipherVars, decVars, keyVars, orchVars, findVars>>

\* lines 422-451: one port.read and the match on its result
SessionSerialRead(rd) ==
    /\ sPlatform = "other" /\ sState = "open"
    /\ ReadAllowed(rd)
    /\ \E res \in {serial_read(sAcc, rd, sHash, sCounter, sPid)} :
           /\ sFed' = IF rd.ok THEN sFed \o rd.bytes ELSE sFed
           /\ sAcc' = res.buf
           /\ sPassed' = sPassed \o [i \in 1..Len(res.log) |-> res.log[i].frame]
           /\ sLog' = sLog \o [i \in 1..Len(res.log) |->
                                  [frame |-> res.log[i].frame, data |-> res.log[i].data]]
           /\ sCounter' = res.counter
           /\ sState' = IF res.panicked THEN "dead" ELSE "open"
    /\ sFamily' = FamilyAfter(rd)
    /\ sReads' = ReadsAfter(rd)
    /\ sLast' = ReadKind(rd)
    /\ UNCHANGED <<sPlatform, sHash, sPid, cipherVars, decVars, keyVars, orchVars, findVars>>

NextSession ==
    \/ \E rd \in Reads : SessionUsbRead(rd)
    \/ SessionUsbReopen
    \/ \E rd \in Reads : SessionSerialRead(rd)

SpecSession == InitSession /\ [][NextSession]_vars

\* the segments of a byte stream that a delimiter terminates, in order
RECURSIVE Segments(_)
Segments(stream) ==
    LET pos == DelimiterPos(stream)
    IN  IF pos < 0 THEN <<>>
        ELSE <<SubSeq(stream, 1, pos)>> \o Segments(SubSeq(stream, pos + 3, Len(stream)))

\* the bytes after the last delimiter
RECURSIVE Remainder(_)
Remainder(stream) ==
    LET pos == DelimiterPos(stream)
    IN  IF pos < 0 THEN stream ELSE Remainder(SubSeq(stream, pos + 3, Len(stream)))

IsPrefix(s, t) == Len(s) <= Len(t) /\ SubSeq(t, 1, Len(s)) = s

(* C4: whatever the stream and its split into reads, the frames a session
   passes to the decoder are the delimiter-terminated segments of what it
   read, in order, each once and none holding a delimiter; a session that has
   ended has passed every one of them, and in a serial session, which drains
   after every read, only the bytes after the last delimiter stay in the
   accumulator.                                                            *)
C4_FramesAreSegments ==
    sState \in {"open", "closed"} =>
        /\ IsPrefix(sPassed, Segments(sFed))
        /\ \A i \in 1..Len(sPassed) : DelimiterPos(sPassed[i]) < 0
        /\ (sPlatform = "other" \/ sState = "closed") => sPassed = Segments(sFed)
        /\ (sPlatform = "other") => sAcc = Remainder(sFed)

(* C5: on both transport paths the accumulator never holds more than 4096
   bytes plus one read chunk of 64 bytes.                                  *)
C5_AccumulatorBounded ==
    Len(sAcc) <= MAX_ACCUMULATOR + READ_BUFFER_SIZE

(* C9: the counter every frame is decrypted with is 0, and a ciphertext frame
   decrypts to the same plaintext whatever was decrypted before it.        *)
C9_NoCarriedCipherState ==
    /\ sState # "off" => sCounter = <<0, 0>>
    /\ \A i, j \in 1..Len(sLog) :
          sLog[i].frame = sLog[j].frame => sLog[i].data = sLog[j].data

\* the same frame decrypted first and third, a different one in between
C9_Witness ==
    /\ Len(sLog) >= 3
    /\ sLog[1].frame = CipherA /\ sLog[2].frame = CipherB /\ sLog[3].frame = CipherA
    /\ sLog[3].data = PlainA

----------------------------------------------------------------------------
(* serial.rs: device discovery over what the platform enumerates           *)

\* Option<T>
None == <<>>
Some(v) == <<v>>
is_some(o) == Len(o) = 1
unwrap(o) == o[1]

\* format!("0x{:04x}", pid)
FormatHex4(pid) ==
    <<"0", "x", HexDigits[(pid \div 4096) + 1], HexDigits[((pid \div 256) % 16) + 1],
      HexDigits[((pid \div 16) % 16) + 1], HexDigits[(pid % 16) + 1]>>

\* format!("USB Device (PID: 0x{:04x})", pid)
UsbDeviceName(pid) == <<"USB Device (PID: ">> \o FormatHex4(pid) \o <<")">>

(* What an enumeration gives.  status: "ok", "no_context" (windows:
   Context::new fails) or "no_list" (context.devices() or
   serialport::available_ports() fails).  devices: the entries in the order
   of the platform, each with its ids, its port name, and whether its ids can
   be read at all (windows: device_descriptor() is Ok; other: the port type
   is SerialPortType::UsbPort).                                            *)
Bus(status, devices) == [status |-> status, devices |-> devices]
BusEntry(vid, pid, port_name, readable) ==
    [vid |-> vid, pid |-> pid, port_name |-> port_name, readable |-> readable]

\* pids.contains(&pid)
contains(pids, pid) == \E k \in 1..Len(pids) : pids[k] = pid

\* the entries the `for` loops of the discovery functions iterate over
Enumerated(bus) == IF bus.status = "ok" THEN bus.devices ELSE <<>>

\* a discovery that knows the first product id of the list only
find_connected_device_info_first_pid(os, vid, pids, bus) ==
    LET devices == Enumerated(bus)
        hits == {i \in 1..Len(devices) :
                    /\ devices[i].readable /\ devices[i].vid = vid
                    /\ Len(pids) > 0 /\ devices[i].pid = pids[1]}
    IN  IF hits = {} THEN None
        ELSE LET d == devices[CHOOSE i \in hits : \A j \in hits : i <= j]
             IN  Some(<<d.pid, IF os = "windows" THEN UsbDeviceName(d.pid)
                               ELSE <<d.port_name>>>>)

\* the `for` loop of find_connected_device_info from entry i on
RECURSIVE FindFrom(_, _, _, _, _)
FindFrom(os, vid, pids, devices, i) ==
    IF i > Len(devices) THEN None
    ELSE IF devices[i].readable /\ devices[i].vid = vid
            /\ contains(pids, devices[i].pid)
         THEN Some(<<devices[i].pid,
                     IF os = "windows" THEN UsbDeviceName(devices[i].pid)
                     ELSE <<devices[i].port_name>>>>)
         ELSE FindFrom(os, vid, pids, devices, i + 1)

\* find_connected_device_info(vid, pids): None, or Some(<<pid, device name>>),
\* the name as the pieces of text it is made of
find_connected_device_info(os, vid, pids, bus) ==
    IF bus.status # "ok" THEN None
    ELSE FindFrom(os, vid, pids, bus.devices, 1)

\* is_device_connected(vid, pid)
is_device_connected(os, vid, pid, bus) ==
    IF bus.status # "ok" THEN FALSE
    ELSE \E i \in 1..Len(bus.devices) :
            /\ bus.devices[i].readable
            /\ bus.devices[i].vid = vid /\ bus.devices[i].pid = pid

\* is_any_device_connected(vid, pids)
is_any_device_connected(os, vid, pids, bus) ==
    \E k \in 1..Len(pids) : is_device_connected(os, vid, pids[k], bus)

----------------------------------------------------------------------------
(* SpecDiscovery: find_connected_device_info applied to drawn enumerations *)

\* entries in one enumeration
MaxBusDevices == 2

\* a foreign vendor id and an unsupported product id
OtherVid == 1027
OtherPid == 24577

BusEntries ==
    { BusEntry(VID, PIDS[1], "/dev/ttyACM0", TRUE),
      BusEntry(VID, PIDS[2], "/dev/ttyACM1", TRUE),
      BusEntry(VID, OtherPid, "/dev/ttyACM2", TRUE),
      BusEntry(OtherVid, PIDS[1], "/dev/ttyUSB0", TRUE),
      BusEntry(VID, PIDS[2], "/dev/ttyS0", FALSE) }

RECURSIVE EntryLists(_)
EntryLists(n) ==
    IF n = 0 THEN {<<>>}
    ELSE EntryLists(n - 1)
         \cup {Append(l, e) : l \in {m \in EntryLists(n - 1) : Len(m) = n - 1},
                              e \in BusEntries}

Buses(os) ==
    {Bus("ok", l) : l \in EntryLists(MaxBusDevices)}
    \cup {Bus("no_list", l) : l \in EntryLists(1)}
    \cup (IF os = "windows" THEN {Bus("no_context", l) : l \in EntryLists(1)}
          ELSE {})

InitDiscovery ==
    /\ fPlatform \in {"windows", "other"}
    /\ fPids \in {PIDS, <<PIDS[2]>>}
    /\ fBus \in Buses(fPlatform)
    /\ fOut = None
    /\ fPhase = "input"
    /\ CipherIdle /\ DecoderIdle /\ KeyIdle /\ SessionIdle /\ OrchIdle

\* a call find_connected_device_info(VID, pids)
Find ==
    /\ fPhase = "input"
    /\ fOut' = find_connected_device_info(fPlatform, VID, fPids, fBus)
    /\ fPhase' = "done"
    /\ UNCHANGED <<fPlatform, fPids, fBus, cipherVars, decVars, keyVars, sessVars,
                   orchVars>>

NextDiscovery == Find

SpecDiscovery == InitDiscovery /\ [][NextDiscovery]_vars

\* the positions, in enumeration order, of the entries with vendor id vid and a
\* product id in pids
Matches(vid, pids, bus) ==
    {i \in 1..Len(Enumerated(bus)) :
        /\ Enumerated(bus)[i].readable
        /\ Enumerated(bus)[i].vid = vid
        /\ Enumerated(bus)[i].pid \in {pids[k] : k \in 1..Len(pids)}}

(* C12: find_connected_device_info(vid, pids) returns the first entry in
   enumeration order whose vendor id is vid and whose product id is in pids,
   with that entry's own product id, and returns none exactly when the
   enumeration holds no such entry.                                        *)
C12_FirstMatch ==
    fPhase = "done" =>
        LET hits == Matches(VID, fPids, fBus)
        IN  /\ (fOut = None) <=> (hits = {})
            /\ hits # {} =>
                 LET first == CHOOSE i \in hits : \A j \in hits : i <= j
                 IN  /\ unwrap(fOut)[1] = fBus.devices[first].pid
                     /\ fPlatform = "other" =>
                          unwrap(fOut)[2] = <<fBus.devices[first].port_name>>

\* the second supported product id enumerated before the first one
C12_Witness ==
    /\ fPhase = "done" /\ fPlatform = "other"
    /\ fPids = PIDS
    /\ Len(fBus.devices) = 2 /\ fBus.status = "ok"
    /\ fBus.devices[1].pid = PIDS[2] /\ fBus.devices[1].readable
    /\ fBus.devices[2].pid = PIDS[1] /\ fBus.devices[2].vid = VID
    /\ fOut = Some(<<PIDS[2], <<"/dev/ttyACM1">>>>)

----------------------------------------------------------------------------
(* socketio.rs / serial.rs: the start-snappy and stop-snappy handlers and the
   collection runs they spawn.  A run is one call of start_snappy_with_socket:
   a poll task, a read task, the channel between them and the two shared
   cells.  One action is one handler call or one loop iteration of a task. *)

\* start-snappy commands in a behaviour
MaxRuns == 2
\* times a device is plugged in
MaxPlugEvents == 2
\* reads that deliver a frame chunk
MaxFrameReads == 1
\* serial lookups that find no device although one is on the bus
MaxLookupFaults == 1

\* tokio::sync::mpsc::channel::<(String, u16)>(100)
CHANNEL_CAPACITY == 100

RunIds == 1..MaxRuns

\* a device on the bus: product id, serial number, port name
NoDevice == [pid |-> 0, serial |-> <<>>, port |-> ""]
DevA == [pid |-> PIDS[1], serial |-> SerialA, port |-> "/dev/ttyACM0"]
DevB == [pid |-> PIDS[2], serial |-> SerialB, port |-> "/dev/ttyACM0"]

\* the tuple sent when no device is detected: (String::new(), 0)
EmptyTuple == <<"", 0>>

(* A transport session: a UsbSession (windows) or the open port with its
   data_buffer (other).  `dev` is the device the handle was opened on,
   `alive` whether that device has stayed on the bus since, and `failed`
   whether a read on the handle has returned an error.                     *)
NoSession == [open |-> FALSE, device_pid |-> 0, accumulator |-> <<>>,
              dev |-> NoDevice, alive |-> FALSE, failed |-> FALSE]
OpenSession(pid, dev) == [open |-> TRUE, device_pid |-> pid, accumulator |-> <<>>,
                          dev |-> dev, alive |-> TRUE, failed |-> FALSE]

\* a task that tokio::spawn has not created yet
PollUnborn == [pc |-> "unborn", last_connected_device |-> None,
               detected_device |-> None, cached_serial |-> None,
               pending |-> EmptyTuple, last_sent |-> None]

\* a comparison that reports a change on every cycle
device_changed_always(detected_device, last_connected_device) ==
    detected_device = detected_device

\* a comparison that looks at presence only
device_changed_presence_only(detected_device, last_connected_device) ==
    is_some(detected_device) # is_some(last_connected_device)

\* detected_device != last_connected_device
device_changed(detected_device, last_connected_device) ==
    detected_device # last_connected_device
ReaderUnborn == [pc |-> "unborn", path |-> "", device_pid |-> 0, hash |-> <<>>,
                 counter |-> <<0, 0>>, session |-> NoSession]

\* a flag read that never sees the store made by stop-snappy
is_snappy_collecting_stale == TRUE

\* is_snappy_collecting(): SNAPPY_COLLECTING.load(Ordering::Relaxed)
is_snappy_collecting == SNAPPY_COLLECTING

\* the read task has ended: rx is dropped and tx.send returns Err at once
ReceiverDropped(id) == reader[id].pc \in {"exited", "panicked"}

\* the poll task has ended: tx is dropped and rx.recv returns None once the
\* channel is empty
SendersDropped(id) == poll[id].pc = "exited"

\* a send that gives up on a full channel, as try_send does
tx_try_send(queue, tuple, closed) ==
    IF closed THEN [res |-> "err", queue |-> queue]
    ELSE IF Len(queue) < CHANNEL_CAPACITY
         THEN [res |-> "ok", queue |-> Append(queue, tuple)]
         ELSE [res |-> "full", queue |-> queue]

(* tx.send(tuple).await on the channel holding `queue`: Err at once when the
   receiver is dropped (closed), the tuple queued when there is room, and
   otherwise the sender waits for room.                                    *)
tx_send(queue, tuple, closed) ==
    IF closed THEN [res |-> "err", queue |-> queue]
    ELSE IF Len(queue) < CHANNEL_CAPACITY
         THEN [res |-> "ok", queue |-> Append(queue, tuple)]
         ELSE [res |-> "wait", queue |-> queue]

(* One discovery of the poll loop (lines 226-315) with device `dev` on the bus
   (NoDevice: none that matches VID and PIDS).  `lookup` is what the serial
   number lookup gives: "none" (windows only: find_usb_device_windows_for_pid
   returns None although a device is there), "no_serial" or "serial".  The result holds detected_device
   and the new values of the cells the discovery writes.                   *)
discover(os, dev, cached, key, pid, lookup) ==
    IF os = "windows"
    THEN IF dev # NoDevice
         THEN IF is_some(cached)
              THEN [detected_device |-> Some(<<"USB_DEVICE", dev.pid>>),
                    cached_serial |-> cached, hash_key |-> key,
                    current_device_pid |-> Some(dev.pid)]
              ELSE CASE lookup = "none" ->
                          [detected_device |-> None, cached_serial |-> cached,
                           hash_key |-> key, current_device_pid |-> Some(dev.pid)]
                     [] lookup = "no_serial" ->
                          [detected_device |-> Some(<<"USB_DEVICE", dev.pid>>),
                           cached_serial |-> cached, hash_key |-> key,
                           current_device_pid |-> Some(dev.pid)]
                     [] lookup = "serial" ->
                          [detected_device |-> Some(<<"USB_DEVICE", dev.pid>>),
                           cached_serial |-> Some(dev.serial),
                           hash_key |-> serial_number_u8(dev.serial),
                           current_device_pid |-> Some(dev.pid)]
         ELSE [detected_device |-> None, cached_serial |-> None, hash_key |-> key,
               current_device_pid |-> None]
    ELSE IF dev # NoDevice
         THEN [detected_device |-> Some(<<dev.port, dev.pid>>),
               cached_serial |-> cached,
               hash_key |-> IF lookup = "serial" THEN serial_number_u8(dev.serial)
                            ELSE key,
               current_device_pid |-> Some(dev.pid)]
         ELSE [detected_device |-> None, cached_serial |-> cached, hash_key |-> key,
               current_device_pid |-> pid]

Lookups == IF platform = "windows" THEN {"none", "no_serial", "serial"}
           ELSE {"no_serial", "serial"}

\* the events one decoder result makes emit_snap_data send, tagged with the
\* run whose read task made the call and whether that run had been stopped
Emission(id, out) ==
    IF out.kind = "emit"
    THEN [i \in 1..Len(emit_snap_data(SNAPPY_SOCKET, out.mac, out.value, out.pid)) |->
            [run |-> id, after_stop |-> id \in stopped,
             event |-> emit_snap_data(SNAPPY_SOCKET, out.mac, out.value, out.pid)[i]]]
    ELSE <<>>

RECURSIVE Emissions(_, _)
Emissions(id, log) ==
    IF log = <<>> THEN <<>>
    ELSE Emission(id, Head(log).out) \o Emissions(id, Tail(log))

\* socketio.rs 76-100: the start-snappy handler of client c, with the task it
\* spawns and the two tasks start_snappy_with_socket spawns
StartSnappy(c) ==
    /\ budget.starts > 0
    /\ budget' = [budget EXCEPT !.starts = @ - 1]
    /\ SNAPPY_COLLECTING' = TRUE
    /\ SNAPPY_SOCKET' = c
    /\ runs' = runs + 1
    /\ poll' = [poll EXCEPT ![runs + 1].pc = "loop"]
    /\ reader' = [reader EXCEPT ![runs + 1].pc = "recv"]
    /\ UNCHANGED <<platform, attached, hash_key, current_device_pid, channel,
                   emitted, stopped, cipherVars, decVars, keyVars, sessVars,
                   findVars, monVars>>

\* a stop-snappy handler that leaves the socket registered
StopSnappy_keeps_socket(c) ==
    /\ SNAPPY_COLLECTING' = FALSE
    /\ SNAPPY_SOCKET' = SNAPPY_SOCKET
    /\ stopped' = stopped \cup (1..runs)
    /\ UNCHANGED <<platform, attached, budget, runs, poll, hash_key,
                   current_device_pid, channel, reader, emitted,
                   cipherVars, decVars, keyVars, sessVars,
                   findVars, monVars>>

\* socketio.rs 102-119: the stop-snappy handler of client c
StopSnappy(c) ==
    /\ SNAPPY_COLLECTING' = FALSE
    /\ SNAPPY_SOCKET' = NoSocket
    /\ stopped' = stopped \cup (1..runs)
    /\ UNCHANGED <<platform, attached, budget, runs, poll, hash_key,
                   current_device_pid, channel, reader, emitted,
                   cipherVars, decVars, keyVars, sessVars,
                   findVars, monVars>>

\* the environment: a device is plugged in
Plug(dev) ==
    /\ attached = NoDevice
    /\ dev \in budget.devices
    /\ budget.replug \/ budget.plugs > 0
    /\ budget' = IF budget.replug THEN budget ELSE [budget EXCEPT !.plugs = @ - 1]
    /\ attached' = dev
    /\ UNCHANGED <<platform, SNAPPY_COLLECTING, SNAPPY_SOCKET, runs, poll, hash_key,
                   current_device_pid, channel, reader, emitted, stopped,
                   cipherVars, decVars, keyVars, sessVars,
                   findVars, monVars>>

\* the environment: the device is unplugged; handles open on it stay dead
Unplug ==
    /\ attached # NoDevice
    /\ attached' = NoDevice
    /\ reader' = [id \in RunIds |-> [reader[id] EXCEPT !.session.alive = FALSE]]
    /\ UNCHANGED <<platform, SNAPPY_COLLECTING, SNAPPY_SOCKET, budget, runs, poll,
                   hash_key, current_device_pid, channel, emitted, stopped,
                   cipherVars, decVars, keyVars, sessVars,
                   findVars, monVars>>

\* serial.rs 221-327: one iteration of the poll loop of run id, up to the
\* point where tx.send completes or suspends on a full channel
PollCycle(id, lookup) ==
    /\ id \in 1..runs /\ poll[id].pc = "loop"
    /\ IF ~is_snappy_collecting
       THEN /\ poll' = [poll EXCEPT ![id].pc = "exited"]
            /\ UNCHANGED <<hash_key, current_device_pid, channel, budget>>
       ELSE \E d \in {discover(platform, attached, poll[id].cached_serial,
                               hash_key[id], current_device_pid[id], lookup)} :
            /\ lookup = "none" => budget.faults > 0
            /\ budget' = IF lookup = "none"
                          THEN [budget EXCEPT !.faults = @ - 1] ELSE budget
            /\ hash_key' = [hash_key EXCEPT ![id] = d.hash_key]
            /\ current_device_pid' =
                   [current_device_pid EXCEPT ![id] = d.current_device_pid]
            /\ IF device_changed(d.detected_device, poll[id].last_connected_device)
               THEN \E tuple \in {IF is_some(d.detected_device)
                                  THEN unwrap(d.detected_device)
                                  ELSE EmptyTuple} :
                    \E snd \in {tx_send(channel[id], tuple, ReceiverDropped(id))} :
                    /\ poll' = [poll EXCEPT
                           ![id].last_connected_device = d.detected_device,
                           ![id].detected_device = d.detected_device,
                           ![id].cached_serial = d.cached_serial,
                           ![id].pc = IF snd.res = "wait" THEN "send" ELSE "loop",
                           ![id].pending = IF snd.res = "wait" THEN tuple
                                           ELSE EmptyTuple,
                           ![id].last_sent = IF snd.res = "err" THEN @
                                             ELSE Some(tuple)]
                    /\ channel' = [channel EXCEPT ![id] = snd.queue]
               ELSE /\ poll' = [poll EXCEPT
                           ![id].detected_device = d.detected_device,
                           ![id].cached_serial = d.cached_serial]
                    /\ UNCHANGED channel
    /\ UNCHANGED <<platform, SNAPPY_COLLECTING, SNAPPY_SOCKET, attached,
                   runs, reader, emitted, stopped,
                   cipherVars, decVars, keyVars, sessVars,
                   findVars, monVars>>

\* serial.rs 320-324: a suspended tx.send completes, because the channel has
\* room again or because the receiver is gone
PollResume(id) ==
    /\ id \in 1..runs /\ poll[id].pc = "send"
    /\ \E snd \in {tx_send(channel[id], poll[id].pending, ReceiverDropped(id))} :
       /\ snd.res # "wait"
       /\ channel' = [channel EXCEPT ![id] = snd.queue]
    /\ poll' = [poll EXCEPT ![id].pc = "loop", ![id].pending = EmptyTuple]
    /\ UNCHANGED <<platform, SNAPPY_COLLECTING, SNAPPY_SOCKET, attached, budget,
                   runs, hash_key, current_device_pid, reader, emitted, stopped,
                   cipherVars, decVars, keyVars, sessVars,
                   findVars, monVars>>

(* serial.rs 335-350 and 409-411: rx.recv() of the read task of run id
   returns, and the task goes up to the first iteration of a session loop.
   open_ok: whether serialport's open succeeds when the port is there.     *)
Recv(id, open_ok) ==
    /\ id \in 1..runs /\ reader[id].pc = "recv"
    /\ IF channel[id] # <<>>
       THEN /\ channel' = [channel EXCEPT ![id] = Tail(@)]
            /\ \E tuple \in {Head(channel[id])} :
               IF ~is_snappy_collecting
               THEN reader' = [reader EXCEPT ![id].pc = "exited"]
               ELSE IF tuple[1] = ""
               THEN UNCHANGED reader
               ELSE IF platform = "windows"
               THEN reader' = [reader EXCEPT ![id] =
                        [pc |-> "usb", path |-> tuple[1], device_pid |-> tuple[2],
                         hash |-> hash_serial(hash_key[id], cargoToml),
                         counter |-> <<0, 0>>, session |-> NoSession]]
               ELSE IF open_ok /\ attached # NoDevice /\ attached.port = tuple[1]
               THEN reader' = [reader EXCEPT ![id] =
                        [pc |-> "serial", path |-> tuple[1], device_pid |-> tuple[2],
                         hash |-> hash_serial(hash_key[id], cargoToml),
                         counter |-> <<0, 0>>,
                         session |-> OpenSession(tuple[2], attached)]]
               ELSE UNCHANGED reader
       ELSE /\ SendersDropped(id)
            /\ reader' = [reader EXCEPT ![id].pc = "exited"]
            /\ UNCHANGED channel
    /\ UNCHANGED <<platform, SNAPPY_COLLECTING, SNAPPY_SOCKET, attached, budget,
                   runs, poll, hash_key, current_device_pid, emitted, stopped,
                   cipherVars, decVars, keyVars, sessVars,
                   findVars, monVars>>

\* a frame as DevB sends it: encrypted under the key of its own serial
FrameOnB == chacha20_encrypt(KeyB, KeyB, <<0, 0>>, PlainB) \o <<CR, LF>>

\* the frame chunks a device sends
FramesOf(dev) ==
    IF dev = DevA THEN {FrameA, Cipher14 \o <<CR, LF>>}
    ELSE IF dev = DevB THEN {FrameOnB}
    ELSE {}

\* what one read on session s can return: an error (a timeout, or the device
\* is gone), no bytes, or a frame chunk
SessionReads(s) ==
    {ReadErr}
    \cup (IF s.alive THEN {ReadOk(<<>>)} ELSE {})
    \cup (IF s.alive /\ budget.frames > 0 THEN {ReadOk(f) : f \in FramesOf(s.dev)}
          ELSE {})

BudgetAfter(rd) ==
    IF rd.ok /\ rd.bytes # <<>> THEN [budget EXCEPT !.frames = @ - 1] ELSE budget

(* serial.rs 355-402: one iteration of the USB loop of the read task of run
   id.  open_ok: whether open_usb_session_for_pids succeeds when a supported
   device is on the bus; rd: what read_bulk returns.                       *)
UsbIter(id, open_ok, rd) ==
    /\ id \in 1..runs /\ reader[id].pc = "usb"
    /\ IF ~is_snappy_collecting
       THEN /\ reader' = [reader EXCEPT ![id].pc = "recv", ![id].session = NoSession]
            /\ UNCHANGED <<emitted, budget>>
       ELSE \E s \in {IF reader[id].session.open THEN reader[id].session
                      ELSE IF open_ok /\ attached # NoDevice
                           THEN OpenSession(attached.pid, attached)
                           ELSE NoSession} :
            IF ~s.open
            THEN UNCHANGED <<reader, emitted, budget>>
            ELSE /\ rd \in SessionReads(s)
                 /\ budget' = BudgetAfter(rd)
                 /\ \E res \in {read_snappy_data_via_usb(s.accumulator, rd,
                                    reader[id].hash, reader[id].counter)} :
                    IF res.ret = "frame"
                    THEN \E out \in {process_serial_message_with_emit(res.data,
                                                                     s.device_pid)} :
                         /\ emitted' = emitted \o Emission(id, out)
                         /\ reader' = [reader EXCEPT
                                ![id].pc = IF out.kind = "panic" THEN "panicked"
                                           ELSE "usb",
                                ![id].session = [s EXCEPT !.accumulator = res.acc]]
                    ELSE /\ UNCHANGED emitted
                         /\ reader' = [reader EXCEPT ![id].session =
                                IF res.ret \in {"read_error", "overflow"}
                                THEN NoSession
                                ELSE [s EXCEPT !.accumulator = res.acc]]
    /\ UNCHANGED <<platform, SNAPPY_COLLECTING, SNAPPY_SOCKET, attached, runs, poll,
                   hash_key, current_device_pid, channel, stopped,
                   cipherVars, decVars, keyVars, sessVars,
                   findVars, monVars>>

\* serial.rs 416-452: one iteration of the serial loop of the read task of
\* run id; rd is what port.read returns
SerialIter(id, rd) ==
    /\ id \in 1..runs /\ reader[id].pc = "serial"
    /\ IF ~is_snappy_collecting
       THEN /\ reader' = [reader EXCEPT ![id].pc = "recv", ![id].session = NoSession]
            /\ UNCHANGED <<emitted, budget>>
       ELSE /\ rd \in SessionReads(reader[id].session)
            /\ budget' = BudgetAfter(rd)
            /\ \E res \in {serial_read(reader[id].session.accumulator, rd,
                               reader[id].hash, reader[id].counter,
                               reader[id].device_pid)} :
               /\ emitted' = emitted \o Emissions(id, res.log)
               /\ reader' = [reader EXCEPT
                      ![id].pc = IF res.panicked THEN "panicked" ELSE "serial",
                      ![id].session.accumulator = res.buf,
                      ![id].session.failed = @ \/ ~rd.ok]
    /\ UNCHANGED <<platform, SNAPPY_COLLECTING, SNAPPY_SOCKET, attached, runs, poll,
                   hash_key, current_device_pid, channel, stopped,
                   cipherVars, decVars, keyVars, sessVars,
                   findVars, monVars>>

\* polls of the connection monitors in a behaviour
MaxMonitorPolls == 3

\* the bus as the discovery functions enumerate it
BusOf(dev) ==
    Bus("ok", IF dev = NoDevice THEN <<>>
              ELSE <<BusEntry(VID, dev.pid, dev.port, TRUE)>>)

\* the task check_port_connection spawns, before its first poll
MonitorSpawned == [pc |-> "status", status |-> None, last_status |-> None,
                   last_connected_pid |-> None]

\* a comparison that looks at the presence only
connection_changed_status_only(status, last_status, current_pid, last_connected_pid) ==
    status # last_status

\* status != last_status || current_pid != last_connected_pid
connection_changed(status, last_status, current_pid, last_connected_pid) ==
    status # last_status \/ current_pid # last_connected_pid

\* format!("true,pid:0x{:04x},device:{}", *pid, device_name)
StatusTrue(pid, device_name) ==
    <<"true,pid:">> \o FormatHex4(pid) \o <<",device:">> \o device_name

\* the EventResponse built from connected_device_info
event_response(connected_device_info) ==
    [event  |-> "device-connection",
     status |-> IF is_some(connected_device_info)
                THEN StatusTrue(unwrap(connected_device_info)[1],
                                unwrap(connected_device_info)[2])
                ELSE <<"false">>]

\* socketio.rs 129: the monitor of client c takes the presence
MonitorStatus(c) ==
    /\ monitor[c].pc = "status"
    /\ budget.polls > 0
    /\ budget' = [budget EXCEPT !.polls = @ - 1]
    /\ monitor' = [monitor EXCEPT
           ![c].pc = "info",
           ![c].status = Some(is_any_device_connected(platform, VID, PIDS,
                                                      BusOf(attached)))]
    /\ UNCHANGED <<platform, SNAPPY_COLLECTING, SNAPPY_SOCKET, attached, runs, poll,
                   hash_key, current_device_pid, channel, reader, emitted, stopped,
                   polled, cipherVars, decVars, keyVars, sessVars, findVars>>

\* socketio.rs 130-152: the monitor of client c looks up the device, emits
\* device-connected to its client on a change, and sleeps
MonitorInfo(c) ==
    /\ monitor[c].pc = "info"
    /\ \E connected_device_info \in {find_connected_device_info(platform, VID, PIDS,
                                                                BusOf(attached))} :
       \E current_pid \in {IF is_some(connected_device_info)
                           THEN Some(unwrap(connected_device_info)[1]) ELSE None} :
       IF connection_changed(monitor[c].status, monitor[c].last_status,
                             current_pid, monitor[c].last_connected_pid)
       THEN /\ polled' = [polled EXCEPT ![c] = Append(@,
                   [status |-> unwrap(monitor[c].status),
                    connected_device_info |-> connected_device_info,
                    sent |-> <<[name |-> "device-connected", to |-> c,
                                data |-> event_response(connected_device_info)]>>])]
            /\ monitor' = [monitor EXCEPT
                   ![c].pc = "status", ![c].status = None,
                   ![c].last_status = monitor[c].status,
                   ![c].last_connected_pid = current_pid]
       ELSE /\ polled' = [polled EXCEPT ![c] = Append(@,
                   [status |-> unwrap(monitor[c].status),
                    connected_device_info |-> connected_device_info,
                    sent |-> <<>>])]
            /\ monitor' = [monitor EXCEPT ![c].pc = "status", ![c].status = None]
    /\ UNCHANGED <<platform, SNAPPY_COLLECTING, SNAPPY_SOCKET, attached, budget, runs,
                   poll, hash_key, current_device_pid, channel, reader, emitted,
                   stopped, cipherVars, decVars, keyVars, sessVars, findVars>>

\* a step of the connection monitor of client c
MonitorTask(c) == MonitorStatus(c) \/ MonitorInfo(c)

OrchReads == {ReadErr, ReadOk(<<>>)} \cup {ReadOk(f) : f \in FramesOf(DevA) \cup FramesOf(DevB)}

\* the state after the server has started and the clients have connected: no
\* client has sent a command; a device may be on the bus already
InitOrch(limits) ==
    /\ platform \in {"windows", "other"}
    /\ SNAPPY_COLLECTING = FALSE
    /\ SNAPPY_SOCKET = NoSocket
    /\ attached \in {NoDevice, DevA}
    /\ budget = limits
    /\ runs = 0
    /\ poll = [id \in RunIds |-> PollUnborn]
    /\ hash_key = [id \in RunIds |-> <<>>]
    /\ current_device_pid = [id \in RunIds |-> None]
    /\ channel = [id \in RunIds |-> <<>>]
    /\ reader = [id \in RunIds |-> ReaderUnborn]
    /\ emitted = <<>>
    /\ stopped = {}
    /\ monitor = [c \in Clients |-> MonitorSpawned]
    /\ polled = [c \in Clients |-> <<>>]
    /\ CipherIdle /\ DecoderIdle /\ KeyIdle /\ SessionIdle /\ FindIdle

\* a step of the poll task of run id (serial_port_checker_t)
PollTask(id) ==
    \/ \E lookup \in Lookups : PollCycle(id, lookup)
    \/ PollResume(id)

\* a step of the read task of run id
ReadTask(id) ==
    \/ \E open_ok \in BOOLEAN : Recv(id, open_ok)
    \/ \E open_ok \in BOOLEAN, rd \in OrchReads : UsbIter(id, open_ok, rd)
    \/ \E rd \in OrchReads : SerialIter(id, rd)

\* one run over a bus where one device comes and goes without limit and its
\* reads end in an error or deliver no bytes
ReplugScenario ==
    [starts |-> 1, plugs |-> 0, frames |-> 0, faults |-> 0, replug |-> TRUE,
     devices |-> {DevA}, polls |-> 0]

\* no run, and the connection monitors polling a bus where the device is
\* taken away and either device is plugged in
MonitorScenario ==
    [starts |-> 0, plugs |-> MaxPlugEvents, frames |-> 0, faults |-> 0,
     replug |-> FALSE, devices |-> {DevA, DevB}, polls |-> MaxMonitorPolls]

(* What the environment may do in one behaviour: start-snappy commands, plug
   events (replug: any number), reads that deliver a frame chunk, failed
   serial lookups, the devices that get plugged in, and the polls of the
   connection monitors.  Either clients start several runs beside each other
   over a quiet bus, or the bus is busy under a single run, or a device is
   replugged without end, or the connection monitors watch a busy bus.     *)
Scenarios ==
    { [starts |-> MaxRuns, plugs |-> 0, frames |-> MaxFrameReads, faults |-> 0,
       replug |-> FALSE, devices |-> {DevA}, polls |-> 0],
      [starts |-> 1, plugs |-> MaxPlugEvents, frames |-> MaxFrameReads,
       faults |-> MaxLookupFaults, replug |-> FALSE, devices |-> {DevA, DevB},
       polls |-> 0],
      ReplugScenario, MonitorScenario }

Init == \E limits \in Scenarios : InitOrch(limits)

Next ==
    \/ \E c \in Clients : StartSnappy(c)
    \/ \E c \in Clients : StopSnappy(c)
    \/ \E dev \in {DevA, DevB} : Plug(dev)
    \/ Unplug
    \/ \E id \in RunIds : PollTask(id)
    \/ \E id \in RunIds : ReadTask(id)
    \/ \E c \in Clients : MonitorTask(c)

Spec == Init /\ [][Next]_vars

(* One run from start-snappy to its end, over a bus where the device comes
   and goes without limit.  Every task step that is enabled is eventually
   taken: tokio schedules every ready task, and every call a task makes
   returns (read_bulk and port.read time out, sleeps end).  Nothing is
   assumed of clients and of the device.  The connection monitors are left
   out: they write nothing a run reads.                                    *)
InitLive == InitOrch(ReplugScenario)

NextLive ==
    \/ \E c \in Clients : StartSnappy(c)
    \/ \E c \in Clients : StopSnappy(c)
    \/ \E dev \in {DevA, DevB} : Plug(dev)
    \/ Unplug
    \/ \E id \in RunIds : PollTask(id)
    \/ \E id \in RunIds : ReadTask(id)

Fairness ==
    \A id \in RunIds : WF_vars(PollTask(id)) /\ WF_vars(ReadTask(id))

SpecLive == InitLive /\ [][NextLive]_vars /\ Fairness

\* both tasks of run id have ended
RunEnded(id) == poll[id].pc = "exited" /\ ReceiverDropped(id)

(* C1: whenever stop-snappy has cleared the collecting flag under a run, both
   tasks of that run end, unless the flag is set again first.              *)
C1_TasksExitAfterStop ==
    \A id \in RunIds :
        (id \in stopped /\ ~SNAPPY_COLLECTING) ~> (SNAPPY_COLLECTING \/ RunEnded(id))

\* the flag is cleared while the poll task is suspended on a send to the full
\* channel and the read task is inside a session loop
C1_Witness ==
    /\ 1 \in stopped /\ ~SNAPPY_COLLECTING
    /\ poll[1].pc = "send" /\ Len(channel[1]) = CHANNEL_CAPACITY
    /\ reader[1].pc \in {"usb", "serial"}

\* the runs with a task that has been spawned and has not ended
LivePollTasks == {id \in RunIds : poll[id].pc \in {"loop", "send"}}
LiveReadTasks == {id \in RunIds : reader[id].pc \in {"recv", "usb", "serial"}}
OpenSessions == {id \in RunIds : reader[id].session.open}

(* C2: no snappy-data event is emitted by the read task of a run for which
   stop-snappy had been processed, whatever commands came after the stop.  *)
C2_NoEventAfterStop ==
    \A i \in 1..Len(emitted) : ~emitted[i].after_stop

(* C3: at every moment at most one poll task, at most one read task and at
   most one open transport session exist.                                  *)
C3_OnePipeline ==
    /\ Cardinality(LivePollTasks) <= 1
    /\ Cardinality(LiveReadTasks) <= 1
    /\ Cardinality(OpenSessions) <= 1

\* the poll task of run id goes through one iteration of its loop
IsPollCycle(id) ==
    /\ poll[id].pc = "loop" /\ poll'[id].pc # "exited"
    /\ poll'[id] # poll[id] \/ Len(channel'[id]) > Len(channel[id])

\* the tuples a step of the poll task of run id puts on the channel or holds
\* in a suspended send
TuplesSent(id) ==
    IF poll'[id].pc = "send" THEN <<poll'[id].pending>>
    ELSE IF channel'[id] = channel[id] THEN <<>>
    ELSE SubSeq(channel'[id], Len(channel[id]) + 1, Len(channel'[id]))

(* C13: in a run whose channel is open, a poll cycle whose discovery result
   differs from the result of the cycle before sends exactly one tuple,
   (device name, product id) of the device on the bus when one is detected
   and ("", 0) when none is; a cycle whose result is the same sends nothing. *)
C13_SendOnChange ==
    [][ \A id \in RunIds : IsPollCycle(id) =>
          LET before   == poll[id].detected_device
              detected == poll'[id].detected_device
          IN  /\ IsPrefix(channel[id], channel'[id])
              /\ detected = before => TuplesSent(id) = <<>>
              /\ (detected # before /\ ~ReceiverDropped(id)) =>
                    IF is_some(detected)
                    THEN /\ TuplesSent(id) = <<unwrap(detected)>>
                         /\ attached # NoDevice
                         /\ unwrap(detected)[2] = attached.pid
                         /\ unwrap(detected)[1] # ""
                    ELSE TuplesSent(id) = << <<"", 0>> >> ]_vars

\* the device has disappeared and the empty tuple follows its tuple
C13_Witness ==
    /\ SNAPPY_COLLECTING /\ 1 \notin stopped
    /\ poll[1].detected_device = None
    /\ Len(channel[1]) >= 1 /\ channel[1][Len(channel[1])] = <<"", 0>>
    /\ reader[1].pc \in {"usb", "serial"}

(* C14: the channel of a run never holds more than 100 tuples; tuples enter
   at its tail and leave at its head, one at a time, and the read task gets
   the head; a send on a full channel suspends the poll task with its tuple,
   which is queued, unchanged, once the channel has room again (or is given
   back with an error once the read task has ended).                       *)
C14_BoundedFifoChannel ==
    /\ [](\A id \in RunIds : Len(channel[id]) <= 100)
    /\ [][ \A id \in RunIds :
            /\ \/ channel'[id] = channel[id]
               \/ channel[id] # <<>> /\ channel'[id] = Tail(channel[id])
               \/ /\ Len(channel[id]) < 100
                  /\ Len(channel'[id]) = Len(channel[id]) + 1
                  /\ IsPrefix(channel[id], channel'[id])
            /\ ( /\ reader[id].pc = "recv" /\ reader'[id].pc \in {"usb", "serial"} ) =>
                  /\ channel[id] # <<>> /\ channel'[id] = Tail(channel[id])
                  /\ <<reader'[id].path, reader'[id].device_pid>> = Head(channel[id])
            /\ ( /\ IsPollCycle(id) /\ Len(channel[id]) = 100
                 /\ poll'[id].detected_device # poll[id].detected_device
                 /\ ~ReceiverDropped(id) ) =>
                  /\ poll'[id].pc = "send" /\ channel'[id] = channel[id]
                  /\ poll'[id].pending =
                        IF is_some(poll'[id].detected_device)
                        THEN unwrap(poll'[id].detected_device) ELSE <<"", 0>>
            /\ poll[id].pc = "send" =>
                  \/ poll'[id] = poll[id]
                  \/ /\ poll'[id].pc = "loop" /\ Len(channel[id]) < 100
                     /\ channel'[id] = Append(channel[id], poll[id].pending)
                  \/ /\ poll'[id].pc = "loop" /\ ReceiverDropped(id)
                     /\ channel'[id] = channel[id] ]_vars

\* the poll task is suspended on the full channel while the run collects and
\* the read task waits in rx.recv
C14_Witness ==
    /\ SNAPPY_COLLECTING /\ 1 \notin stopped
    /\ poll[1].pc = "send" /\ Len(channel[1]) = 100
    /\ reader[1].pc = "recv"

\* the product id the poll task of run id has last reported
ReportedPid(id) ==
    IF is_some(poll[id].last_connected_device)
    THEN Some(unwrap(poll[id].last_connected_device)[2])
    ELSE None

(* C15: while collecting stays true, every frame that yields an event is read
   through a session bound to the product id discovery has last reported: a
   session for another product id has been closed and replaced by then.    *)
C15_FramesThroughReportedPid ==
    [][ \A i \in (Len(emitted) + 1)..Len(emitted') :
          ( /\ emitted'[i].run \notin stopped
            /\ is_some(ReportedPid(emitted'[i].run)) ) =>
              emitted'[i].event.pid = unwrap(ReportedPid(emitted'[i].run)) ]_vars

(* C16: on both transport paths a read error closes the session it occurs
   in: no session stays open, for further reads, after a read on its handle
   has returned an error.                                                  *)
C16_ReadErrorClosesSession ==
    \A id \in RunIds : reader[id].session.open => ~reader[id].session.failed

\* discovery has reported a device to run id, the device is on the bus, the
\* read task has taken the report, and the run goes on collecting
ReportTaken(id) ==
    /\ SNAPPY_COLLECTING /\ id \in 1..runs /\ id \notin stopped
    /\ poll[id].pc = "loop" /\ is_some(poll[id].last_connected_device)
    /\ attached # NoDevice
    /\ channel[id] = <<>>

(* C17: while collecting stays true and a device is reported, the read task
   stays in its session loop, where a failed attempt to open the session is
   made again after the backoff; it does not go back to wait for another
   report of discovery.                                                    *)
C17_OpenRetried ==
    \A id \in RunIds : ReportTaken(id) => reader[id].pc # "recv"

\* the product id a poll of the monitor observed
ObservedPid(p) ==
    IF is_some(p.connected_device_info)
    THEN Some(unwrap(p.connected_device_info)[1]) ELSE None

\* the polls before poll i of client c in which the monitor emitted
EmittingBefore(c, i) == {j \in 1..(i - 1) : polled[c][j].sent # <<>>}

(* C18: for each client, the monitor emits device-connected in exactly those
   polls where the presence or the product id it observed differs from what
   it observed in the last poll where it emitted, and in its first poll; it
   emits one event, to its client, with status "true,pid:0x<pid>,..." for the
   device found in that poll, and "false" when none was found.             *)
C18_MonitorEmitsOnChange ==
    \A c \in Clients : \A i \in 1..Len(polled[c]) :
        LET p == polled[c][i]
            before == EmittingBefore(c, i)
            last == polled[c][CHOOSE j \in before : \A k \in before : k <= j]
        IN  /\ (p.sent # <<>>) <=>
                  \/ before = {}
                  \/ p.status # last.status
                  \/ ObservedPid(p) # ObservedPid(last)
            /\ p.sent # <<>> =>
                  /\ Len(p.sent) = 1
                  /\ p.sent[1].name = "device-connected" /\ p.sent[1].to = c
                  /\ IF is_some(p.connected_device_info)
                     THEN /\ SubSeq(p.sent[1].data.status, 1, 7) =
                               <<"true,pid:">> \o FormatHex4(unwrap(ObservedPid(p)))
                          /\ unwrap(ObservedPid(p)) \in {PIDS[1], PIDS[2]}
                     ELSE p.sent[1].data.status = <<"false">>

\* a client is told of the first device, not again while nothing changes, and
\* then of the other device plugged in its place
C18_Witness ==
    /\ Len(polled[1]) = 3
    /\ polled[1][1].sent # <<>> /\ ObservedPid(polled[1][1]) = Some(PIDS[1])
    /\ polled[1][2].sent = <<>>
    /\ polled[1][3].sent # <<>> /\ ObservedPid(polled[1][3]) = Some(PIDS[2])
    /\ polled[1][3].status /\ polled[1][1].status

\* a step of one of the tasks, by what only the tasks write: a poll task, a
\* read task with the decoder it calls, or a connection monitor
TaskStep ==
    /\ runs' = runs
    /\ \/ poll' # poll \/ reader' # reader \/ channel' # channel
       \/ hash_key' # hash_key \/ current_device_pid' # current_device_pid
       \/ emitted' # emitted
       \/ monitor' # monitor \/ polled' # polled

(* C19: the collecting flag and the registered socket change only in a step
   of the start-snappy or the stop-snappy handler; start-snappy leaves the
   flag true and the caller's socket registered, stop-snappy leaves the flag
   false and no socket registered; no step of a poll task, a read task, the
   decoder or a connection monitor changes either of them.                *)
C19_OnlyHandlersWrite ==
    [][ /\ \A c \in Clients : StartSnappy(c) =>
              SNAPPY_COLLECTING' = TRUE /\ SNAPPY_SOCKET' = c
        /\ \A c \in Clients : StopSnappy(c) =>
              SNAPPY_COLLECTING' = FALSE /\ SNAPPY_SOCKET' = NoSocket
        /\ runs' # runs => SNAPPY_COLLECTING' = TRUE /\ SNAPPY_SOCKET' \in Clients
        /\ stopped' # stopped =>
              SNAPPY_COLLECTING' = FALSE /\ SNAPPY_SOCKET' = NoSocket
        /\ ( \/ SNAPPY_COLLECTING' # SNAPPY_COLLECTING
             \/ SNAPPY_SOCKET' # SNAPPY_SOCKET ) =>
              \E c \in Clients : StartSnappy(c) \/ StopSnappy(c)
        /\ TaskStep => UNCHANGED <<SNAPPY_COLLECTING, SNAPPY_SOCKET>> ]_vars

\* client 1 started a run that emitted events and was stopped, and client 2
\* has started the next run: the flag is true and the socket is client 2's
C19_Witness ==
    /\ runs = 2 /\ stopped = {1}
    /\ SNAPPY_COLLECTING = TRUE /\ SNAPPY_SOCKET = 2
    /\ \E i \in 1..Len(emitted) : emitted[i].run = 1 /\ emitted[i].event.to = 1
    /\ poll[2].pc = "loop" /\ reader[2].pc # "recv"

(* C20: a call of emit_snap_data made while no socket is registered sends no
   event, completes without a fault, and leaves the registered socket and
   the collecting flag as they were.                                       *)
C20_EmitUnregisteredNoop ==
    [][ ( /\ dPhase = "input" /\ dPhase' = "done"
          /\ Accepts(dMsg) /\ Len(dMsg) > 14
          /\ SNAPPY_SOCKET = NoSocket ) =>
            /\ dOut'.kind = "emit"
            /\ dSent' = <<>>
            /\ SNAPPY_SOCKET' = NoSocket
            /\ SNAPPY_COLLECTING' = SNAPPY_COLLECTING ]_vars

\* the decoder accepted a frame and called emit_snap_data with no socket
\* registered while the flag was still true
C20_Witness ==
    /\ dPhase = "done" /\ dOut.kind = "emit"
    /\ SNAPPY_SOCKET = NoSocket /\ SNAPPY_COLLECTING = TRUE
    /\ dSent = <<>>

\* the read task of run id reads a frame chunk in this step; ReadFrom(id) is
\* the device whose handle the read is made on
ReadsFrame(id) ==
    /\ reader[id].pc \in {"usb", "serial"}
    /\ reader'[id] # reader[id]
    /\ budget'.frames < budget.frames
ReadFrom(id) ==
    IF reader[id].session.open THEN reader[id].session.dev ELSE attached

\* the key derived from the serial of device dev
KeyOf(dev) == hash_serial(serial_number_u8(dev.serial), cargoToml)

(* C22: after the connected device has changed, a frame read from the new
   device is decrypted with the key derived from the new serial: whenever a
   read task that holds the key of some device's serial reads a frame chunk,
   that device is the one on the other end of the handle.                  *)
C22_KeyOfDeviceRead ==
    [][ \A id \in RunIds :
          ( /\ ReadsFrame(id)
            /\ \E dev \in {DevA, DevB} : reader[id].hash = KeyOf(dev) ) =>
              reader[id].hash = KeyOf(ReadFrom(id)) ]_vars

\* the bytes the read of this step delivered, and the accumulator with them
\* appended, as the overflow check of read_snappy_data_via_usb sees it
BytesRead == SubSeq(sFed', Len(sFed) + 1, Len(sFed'))
Extended == sAcc \o BytesRead

(* C23: the overflow reset of the USB path discards the accumulator only when
   it holds no delimiter: a read after which the accumulator is larger than
   4096 bytes and holds a delimiter passes a frame on and does not clear.  *)
C23_OverflowOnlyWithoutDelimiter ==
    [][ ( /\ sPlatform = "windows" /\ sState = "open"
          /\ Len(sFed') > Len(sFed)
          /\ Len(Extended) > MAX_ACCUMULATOR
          /\ DelimiterPos(Extended) >= 0 ) =>
            /\ Len(sPassed') = Len(sPassed) + 1
            /\ sAcc' # <<>> \/ DelimiterPos(Extended) + 2 = Len(Extended) ]_vars

(* C24: an accumulator overflow resets the buffer and leaves the session
   open: the read after which the accumulator exceeds 4096 bytes ends with
   an empty accumulator on the same session, which is read again.          *)
C24_OverflowKeepsSession ==
    [][ ( /\ sPlatform = "windows" /\ sState = "open"
          /\ Len(sFed') > Len(sFed)
          /\ Len(Extended) > MAX_ACCUMULATOR ) =>
            sState' = "open" /\ sAcc' = <<>> ]_vars

\* this step is a read on an open session that returned Ok with no bytes
ZeroRead == sState = "open" /\ sLast' = "zero" /\ sFed' = sFed

DeadHandleAfterReplug(id) ==
    /\ platform = "other"
    /\ SNAPPY_COLLECTING /\ id \in 1..runs /\ id \notin stopped
    /\ reader[id].session.open /\ ~reader[id].session.alive
    /\ attached # NoDevice

(* C28: on the serial port path, once a device is plugged in again after the
   unplug that killed the session of a collecting run, that run eventually
   holds a live session again, unless collecting is stopped or the device is
   unplugged once more first.                                              *)
C28_SessionReopensAfterReplug ==
    \A id \in RunIds :
        DeadHandleAfterReplug(id) ~>
            ( \/ ~SNAPPY_COLLECTING
              \/ attached = NoDevice
              \/ reader[id].session.open /\ reader[id].session.alive )

(* C29: a session's accumulator is discarded only when every complete frame
   it had received has been passed to the decoder: in a step that drops the
   session, the accumulator held no delimiter.                             *)
C29_NoFrameLostOnDrop ==
    [][ (sState = "open" /\ sState' = "closed") => DelimiterPos(sAcc) < 0 ]_vars

(* C30: after a poll cycle the shared identity buffer holds the serial bytes
   of the device that cycle found, or nothing: when the cycle found no
   device, or could not obtain the serial, the buffer does not hold the
   serial of another device.                                               *)
C30_NoStaleIdentity ==
    [][ \A id \in RunIds :
          IsPollCycle(id) =>
              \/ hash_key'[id] = <<>>
              \/ /\ attached # NoDevice
                 /\ hash_key'[id] = serial_number_u8(attached.serial) ]_vars

(* C31: every snappy-data event carries a product id of the allow-list, and
   that id is the product id of the device on the other end of the session
   the frame was read from.                                                *)
C31_EventPidOfSessionDevice ==
    [][ \A i \in (Len(emitted) + 1)..Len(emitted') :
          /\ emitted'[i].event.pid \in {PIDS[1], PIDS[2]}
          /\ emitted'[i].event.pid = ReadFrom(emitted'[i].run).pid ]_vars

(* C32: within one run, a tuple the poll task sends differs from the tuple it
   sent before, and the first tuple it sends is not the empty tuple ("", 0):
   a run that starts without a device sends nothing until one appears.     *)
C32_NoRepeatedTuple ==
    [][ \A id \in RunIds : IsPollCycle(id) =>
          \A i \in 1..Len(TuplesSent(id)) :
              LET tuple  == TuplesSent(id)[i]
                  before == IF i = 1 THEN poll[id].last_sent
                            ELSE Some(TuplesSent(id)[i - 1])
              IN  IF is_some(before) THEN tuple # unwrap(before)
                  ELSE tuple # EmptyTuple ]_vars

\* the run started without a device and its first tuple, sent once a device
\* appeared, is followed by the empty tuple and then by the tuple of a device
C32_Witness ==
    /\ SNAPPY_COLLECTING /\ 1 \notin stopped
    /\ Len(channel[1]) = 3
    /\ channel[1][1] # EmptyTuple
    /\ channel[1][2] = EmptyTuple
    /\ channel[1][3] # EmptyTuple
    /\ poll[1].last_sent = Some(channel[1][3])

====
